---- MODULE Spec2Model ----
(***************************************************************************)
(* Rule engine of the card game "Recall" (GameBoard component and          *)
(* setupGame).  The game state is the GameState aggregate of               *)
(* src/lib/types.ts; the pending royal decisions are the React state hooks *)
(* of GameBoard.  State updaters are operators from a GameState to a       *)
(* GameState; the actions are the user events that the rendered board      *)
(* offers, plus the component's effects.                                   *)
(***************************************************************************)
EXTENDS Integers, Sequences, FiniteSets, TLC

VARIABLES gameState, gameOutcome, kingAction, queenAction, jackAction,
          isDiscardMode, confirmDiscard, showResurrectDialog, lastOp, opCount

vars == <<gameState, gameOutcome, kingAction, queenAction, jackAction,
          isDiscardMode, confirmDiscard, showResurrectDialog, lastOp, opCount>>

uiVars == <<kingAction, queenAction, jackAction, isDiscardMode,
            confirmDiscard, showResurrectDialog>>

(***************************************************************************)
(* Bounds of the model.                                                    *)
(***************************************************************************)
\* number of shuffle outcomes (seeds of Math.random) explored from setup
MaxSeed == 1

\* number of state-changing user events explored in one game (Jack
\* resurrections can go on for ever); effects are not counted
MaxOps == 11

\* The reachability specifications play a sub-deck of the 54 cards, so that
\* whole games (down to an empty reserve) are explored: the first NumSuits
\* suits, the ranks of SubRanks in each of them, and both Jokers.  The board
\* specification SpecSeq uses all thirteen ranks.
NumSuits == 2

(***************************************************************************)
(* Cards and decks  (src/lib/game.ts, src/lib/types.ts)                    *)
(***************************************************************************)
SUITS == <<"spades", "hearts", "clubs", "diamonds">>

RANKS == <<"A", "2", "3", "4", "5", "6", "7", "8", "9", "10", "J", "Q", "K">>

ROYAL_RANKS == {"J", "Q", "K"}

RANK_ORDER == <<"A", "2", "3", "4", "5", "6", "7", "8", "9", "10", "J", "Q", "K">>

CARDS_PER_SET == 3

NumNarrative == 4

NumRows == 2

NumCols == 4

\* the absent card of a (Card | null) slot, and a null pending record
NULL == [id |-> <<"null", "null">>, suit |-> "null", rank |-> "null"]

NoIndex == 0 - 1

SeqToSet(s) == {s[i] : i \in 1..Len(s)}

MkCard(rank, suit) == [id |-> <<rank, suit>>, suit |-> suit, rank |-> rank]

Joker1 == [id |-> <<"Joker", "1">>, suit |-> "joker", rank |-> "Joker"]

Joker2 == [id |-> <<"Joker", "2">>, suit |-> "joker", rank |-> "Joker"]

RECURSIVE FlatMap(_, _)
FlatMap(suits, ranks) ==
    IF suits = <<>> THEN <<>>
    ELSE [i \in 1..Len(ranks) |-> MkCard(ranks[i], Head(suits))]
         \o FlatMap(Tail(suits), ranks)

\* the ranks of each suit that the sub-deck keeps
SubRanks(suit) ==
    IF suit = "spades" THEN {"A", "2", "3", "J", "Q", "K"}
    ELSE {"A", "2", "3", "4", "Q"}

DeckSuits == SubSeq(SUITS, 1, NumSuits)

InSubDeck(card) == card.suit \in SeqToSet(DeckSuits) /\ card.rank \in SubRanks(card.suit)

\* createDeck: every rank of every suit, followed by the two Jokers
createDeck == FlatMap(SUITS, RANKS) \o <<Joker1, Joker2>>

\* the cards of createDeck that the sub-deck keeps, in createDeck's order
SubDeck == SelectSeq(createDeck, LAMBDA c : c.rank = "Joker" \/ InSubDeck(c))

\* Math.floor(Math.random() * (i + 1)) of the shuffle, for one seed
RandomIndex(seed, i) == ((seed + 1) * (i * i + 3) + seed * 5 + i \div 2) % (i + 1)

\* [newDeck[i], newDeck[j]] = [newDeck[j], newDeck[i]]
Swap(s, a, b) == [s EXCEPT ![a] = s[b], ![b] = s[a]]

\* Fisher-Yates, i from length-1 down to 1 (0-based i, j)
RECURSIVE ShuffleFrom(_, _, _)
ShuffleFrom(deck, i, seed) ==
    IF i <= 0 THEN deck
    ELSE ShuffleFrom(Swap(deck, i + 1, RandomIndex(seed, i) + 1), i - 1, seed)

shuffleDeck(deck, seed) == ShuffleFrom(deck, Len(deck) - 1, seed)

Pop(s) == SubSeq(s, 1, Len(s) - 1)

Top(s) == IF Len(s) = 0 THEN NULL ELSE s[Len(s)]

\* the while loop of setupGame: <<deck, narrativeDeck, tempHeldCards>>
RECURSIVE DealNarrative(_, _, _)
DealNarrative(deck, narrativeDeck, tempHeldCards) ==
    IF Len(narrativeDeck) < NumNarrative /\ Len(deck) > 0
    THEN LET card == Top(deck) IN
         IF card.rank \in ROYAL_RANKS \/ card.rank = "Joker"
         THEN DealNarrative(Pop(deck), narrativeDeck, Append(tempHeldCards, card))
         ELSE DealNarrative(Pop(deck), Append(narrativeDeck, <<card>>), tempHeldCards)
    ELSE <<deck, narrativeDeck, tempHeldCards>>

\* deck.pop() ?? null, k times, into one row
RECURSIVE DealRow(_, _)
DealRow(deck, k) ==
    IF k = 0 THEN <<>>
    ELSE <<Top(deck)>> \o DealRow(Pop(deck), k - 1)

RECURSIVE PopN(_, _)
PopN(deck, k) == IF k = 0 \/ Len(deck) = 0 THEN deck ELSE PopN(Pop(deck), k - 1)

generateGoals(suits, counts) == [i \in 1..Len(suits) |-> [suit |-> suits[i], count |-> counts[i]]]

\* setupGame without the cards set aside during the narrative deal
setupGameDropsHeld(cards, suits, counts, seed) ==
    LET deck0 == shuffleDeck(cards, seed)
        dealt == DealNarrative(deck0, <<>>, <<>>)
        deck1 == shuffleDeck(dealt[1], seed + 1)
        row0  == DealRow(deck1, NumCols)
        deck2 == PopN(deck1, NumCols)
        row1  == DealRow(deck2, NumCols)
        deck3 == PopN(deck2, NumCols)
    IN [goals |-> generateGoals(suits, counts),
        playDeck |-> <<row0, row1>>,
        narrativeDeck |-> dealt[2],
        forgottenPile |-> <<>>,
        memoryPiles |-> [s \in SeqToSet(suits) |-> [cards |-> <<>>, completedWithQueens |-> 0]],
        mainDeck |-> deck3,
        gameStatus |-> "playing",
        history |-> <<>>]

setupGame(cards, suits, counts, seed) ==
    LET deck0 == shuffleDeck(cards, seed)
        dealt == DealNarrative(deck0, <<>>, <<>>)
        deck1 == shuffleDeck(dealt[1] \o dealt[3], seed + 1)
        row0  == DealRow(deck1, NumCols)
        deck2 == PopN(deck1, NumCols)
        row1  == DealRow(deck2, NumCols)
        deck3 == PopN(deck2, NumCols)
    IN [goals |-> generateGoals(suits, counts),
        playDeck |-> <<row0, row1>>,
        narrativeDeck |-> dealt[2],
        forgottenPile |-> <<>>,
        memoryPiles |-> [s \in SeqToSet(suits) |-> [cards |-> <<>>, completedWithQueens |-> 0]],
        mainDeck |-> deck3,
        gameStatus |-> "playing",
        history |-> <<>>]

(***************************************************************************)
(* Helpers of GameBoard  (src/unnamed/part_006, lines 38-100)              *)
(***************************************************************************)
IndexOf(seq, x) ==
    IF \E i \in 1..Len(seq) : seq[i] = x
    THEN (CHOOSE i \in 1..Len(seq) : seq[i] = x /\ \A j \in 1..(i - 1) : seq[j] # x) - 1
    ELSE 0 - 1

getRankValue(rank) == IF rank = "Joker" THEN 0 - 1 ELSE IndexOf(RANK_ORDER, rank)

\* the completed sets counted from the pile's cards alone
getCompletedSetsCardsOnly(pile) == Len(pile.cards) \div CARDS_PER_SET

getCompletedSets(pile) == (Len(pile.cards) \div CARDS_PER_SET) + pile.completedWithQueens

GoalOf(state, suit) == state.goals[CHOOSE i \in 1..Len(state.goals) : state.goals[i].suit = suit]

\* the win test satisfied by one goal instead of every goal
checkWinConditionSome(state) ==
    \E i \in 1..Len(state.goals) :
        getCompletedSets(state.memoryPiles[state.goals[i].suit]) >= state.goals[i].count

checkWinCondition(state) ==
    \A i \in 1..Len(state.goals) :
        getCompletedSets(state.memoryPiles[state.goals[i].suit]) >= state.goals[i].count

IsJoker(c) == c.rank = "Joker"

NonJokers(cards) == SelectSeq(cards, LAMBDA c : ~IsJoker(c))

RankValues(cards) == {getRankValue(cards[i].rank) : i \in 1..Len(cards)}

Min(S) == CHOOSE x \in S : \A y \in S : x <= y

Max(S) == CHOOSE x \in S : \A y \in S : x >= y

\* isSet asking two numbered cards to leave a gap for the Joker
isSetGapOnly(cards) ==
    LET numberedCards == NonJokers(cards)
        rv == RankValues(numberedCards)
        rankDiff == Max(rv) - Min(rv)
    IN  IF Len(numberedCards) = 1 THEN TRUE ELSE rankDiff = 2

\* the isSet decision of processNarrativeSet for a sequence of CARDS_PER_SET cards
isSet(cards) ==
    LET numberedCards == NonJokers(cards)
        rv == RankValues(numberedCards)
        rankDiff == Max(rv) - Min(rv)
    IN  IF Len(numberedCards) = 3 THEN rankDiff = 2
        ELSE IF Len(numberedCards) = 2 THEN rankDiff <= 2
        ELSE Len(numberedCards) = 1

\* processNarrativeSet without the overrun check of lines 88-91
processNarrativeSetNoOverrun(newState, sequenceIndex) ==
    LET sequence  == newState.narrativeDeck[sequenceIndex + 1]
        nonJokers == NonJokers(sequence)
    IN  IF Len(sequence) < CARDS_PER_SET \/ Len(nonJokers) = 0 \/ ~isSet(sequence)
        THEN [state |-> newState, loss |-> FALSE]
        ELSE
          LET suit == nonJokers[1].suit
              s1   == [newState EXCEPT !.memoryPiles[suit].cards = @ \o sequence,
                                       !.narrativeDeck[sequenceIndex + 1] = <<>>]
          IN  IF checkWinCondition(s1)
              THEN [state |-> [s1 EXCEPT !.gameStatus = "won"], loss |-> FALSE]
              ELSE [state |-> s1, loss |-> FALSE]

\* processNarrativeSet moving only the ranked cards of the set to the memory pile
processNarrativeSetRankedOnly(newState, sequenceIndex) ==
    LET sequence  == newState.narrativeDeck[sequenceIndex + 1]
        nonJokers == NonJokers(sequence)
    IN  IF Len(sequence) < CARDS_PER_SET THEN [state |-> newState, loss |-> FALSE]
        ELSE IF Len(nonJokers) = 0 THEN [state |-> newState, loss |-> FALSE]
        ELSE IF ~isSet(sequence) THEN [state |-> newState, loss |-> FALSE]
        ELSE
          LET suit == nonJokers[1].suit
              pile == [newState.memoryPiles[suit] EXCEPT !.cards = @ \o nonJokers]
              s1   == [newState EXCEPT !.memoryPiles[suit] = pile,
                                       !.narrativeDeck[sequenceIndex + 1] = <<>>]
          IN  IF getCompletedSets(pile) > GoalOf(s1, suit).count
              THEN [state |-> [s1 EXCEPT !.gameStatus = "lost"], loss |-> TRUE]
              ELSE IF checkWinCondition(s1)
              THEN [state |-> [s1 EXCEPT !.gameStatus = "won"], loss |-> FALSE]
              ELSE [state |-> s1, loss |-> FALSE]

\* processNarrativeSet: the state it leaves and the value it returns
processNarrativeSet(newState, sequenceIndex) ==
    LET sequence  == newState.narrativeDeck[sequenceIndex + 1]
        nonJokers == NonJokers(sequence)
    IN  IF Len(sequence) < CARDS_PER_SET THEN [state |-> newState, loss |-> FALSE]
        ELSE IF Len(nonJokers) = 0 THEN [state |-> newState, loss |-> FALSE]
        ELSE IF ~isSet(sequence) THEN [state |-> newState, loss |-> FALSE]
        ELSE
          LET suit == nonJokers[1].suit
              pile == [newState.memoryPiles[suit] EXCEPT !.cards = @ \o sequence]
              s1   == [newState EXCEPT !.memoryPiles[suit] = pile,
                                       !.narrativeDeck[sequenceIndex + 1] = <<>>]
          IN  IF getCompletedSets(pile) > GoalOf(s1, suit).count
              THEN [state |-> [s1 EXCEPT !.gameStatus = "lost"], loss |-> TRUE]
              ELSE IF checkWinCondition(s1)
              THEN [state |-> [s1 EXCEPT !.gameStatus = "won"], loss |-> FALSE]
              ELSE [state |-> s1, loss |-> FALSE]

(***************************************************************************)
(* handleDrop  (src/unnamed/part_006, lines 103-211)                       *)
(* data = [card, source], source = [kind, row, col] for 'play-row-col';    *)
(* target = [kind, idx] for 'narrative-idx', 'forgotten' or anything else. *)
(***************************************************************************)
PlaySource(row, col) == [kind |-> "play", row |-> row, col |-> col]

OtherSource == [kind |-> "other", row |-> 0 - 1, col |-> 0 - 1]

NarrativeTarget(k) == [kind |-> "narrative", idx |-> k]

ForgottenTarget == [kind |-> "forgotten", idx |-> 0 - 1]

OtherTarget == [kind |-> "other", idx |-> 0 - 1]

\* newState.playDeck[row]?.[col], rows and columns counted from 0
SlotAt(state, row, col) ==
    IF row \in 0..(Len(state.playDeck) - 1) /\ col \in 0..(Len(state.playDeck[row + 1]) - 1)
    THEN state.playDeck[row + 1][col + 1]
    ELSE NULL

\* lines 119-133: the card is at the slot the source names
cardFoundAndRemoved(state, data) ==
    /\ data.source.kind = "play"
    /\ SlotAt(state, data.source.row, data.source.col) # NULL
    /\ SlotAt(state, data.source.row, data.source.col).id = data.card.id

\* the suit test applied to Wilds too
SuitMismatchWilds(cards, card) ==
    LET nonJokerCards == NonJokers(cards)
    IN  Len(nonJokerCards) > 0 /\ card.suit # nonJokerCards[1].suit

\* the suit test comparing the card with itself instead of with the sequence
SuitMismatchOwnSuit(cards, card) ==
    card.rank # "Joker" /\ card.suit # "joker" /\ card.suit # card.suit

\* lines 140-146
SuitMismatch(cards, card) ==
    LET nonJokerCards == NonJokers(cards)
        hasSuit == Len(nonJokerCards) > 0 \/ card.suit # "joker"
        sequenceSuit == IF Len(nonJokerCards) > 0 THEN nonJokerCards[1].suit ELSE card.suit
    IN  card.rank # "Joker" /\ hasSuit /\ card.suit # sequenceSuit

\* lines 148-151
DuplicateRank(cards, card) ==
    \E i \in 1..Len(cards) : cards[i].rank = card.rank /\ card.rank # "Joker"

\* the rank window refusing a ranked card when the sequence holds no ranked card
SequenceMismatchNeedsRanked(cards, card) ==
    LET cardRankValue == getRankValue(card.rank)
        ranksInSequence == RankValues(NonJokers(cards))
        n == Len(NonJokers(cards))
    IN  /\ card.rank # "Joker"
        /\ \/ n = 0
           \/ /\ n = 1
              /\ LET d == cardRankValue - Min(ranksInSequence)
                 IN (IF d < 0 THEN 0 - d ELSE d) > 2
           \/ /\ n = 2
              /\ LET minRank == Min(ranksInSequence)
                     maxRank == Max(ranksInSequence)
                     isAdjacent == cardRankValue = minRank - 1 \/ cardRankValue = maxRank + 1
                     isBetween == cardRankValue > minRank /\ cardRankValue < maxRank
                     rankDiff == maxRank - minRank
                 IN  IF rankDiff = 1 THEN ~isAdjacent
                     ELSE IF rankDiff = 2 THEN ~isBetween
                     ELSE TRUE

\* the rank window one rank too wide on either side
SequenceMismatchWide(cards, card) ==
    LET cardRankValue == getRankValue(card.rank)
        ranksInSequence == RankValues(NonJokers(cards))
        n == Len(NonJokers(cards))
    IN  /\ card.rank # "Joker"
        /\ \/ /\ n = 1
              /\ LET d == cardRankValue - Min(ranksInSequence)
                 IN (IF d < 0 THEN 0 - d ELSE d) > 3
           \/ /\ n = 2
              /\ LET minRank == Min(ranksInSequence)
                     maxRank == Max(ranksInSequence)
                 IN  cardRankValue < minRank - 1 \/ cardRankValue > maxRank + 1

\* the rank window without its branch for a sequence of two ranked cards
SequenceMismatchOneRanked(cards, card) ==
    LET cardRankValue == getRankValue(card.rank)
        ranksInSequence == RankValues(NonJokers(cards))
        n == Len(NonJokers(cards))
    IN  /\ card.rank # "Joker"
        /\ n = 1
        /\ LET d == cardRankValue - Min(ranksInSequence)
           IN (IF d < 0 THEN 0 - d ELSE d) > 2

\* lines 153-185: TRUE when the rank window rejects the card
SequenceMismatch(cards, card) ==
    LET cardRankValue == getRankValue(card.rank)
        ranksInSequence == RankValues(NonJokers(cards))
        n == Len(NonJokers(cards))
    IN  /\ card.rank # "Joker"
        /\ \/ /\ n = 1
              /\ LET d == cardRankValue - Min(ranksInSequence)
                 IN (IF d < 0 THEN 0 - d ELSE d) > 2
           \/ /\ n = 2
              /\ LET minRank == Min(ranksInSequence)
                     maxRank == Max(ranksInSequence)
                     isAdjacent == cardRankValue = minRank - 1 \/ cardRankValue = maxRank + 1
                     isBetween == cardRankValue > minRank /\ cardRankValue < maxRank
                     rankDiff == maxRank - minRank
                 IN  IF rankDiff = 1 THEN ~isAdjacent
                     ELSE IF rankDiff = 2 THEN ~isBetween
                     ELSE TRUE

\* the play refilling the back slot from the bottom of the reserve
PlayCascadeFromBottom(state, card, cardRow, cardCol, seqIndex) ==
    LET s1 == [state EXCEPT !.narrativeDeck[seqIndex + 1] = Append(@, card)]
        s2 == [s1 EXCEPT !.playDeck[cardRow + 1][cardCol + 1] = s1.playDeck[2][cardCol + 1]]
    IN  [s2 EXCEPT !.playDeck[2][cardCol + 1] =
                       IF Len(s2.mainDeck) = 0 THEN NULL ELSE Head(s2.mainDeck),
                   !.mainDeck = IF Len(@) = 0 THEN @ ELSE Tail(@)]

\* the play leaving the front slot empty instead of promoting the back card
PlayCascadeNoPromotion(state, card, cardRow, cardCol, seqIndex) ==
    [state EXCEPT !.narrativeDeck[seqIndex + 1] = Append(@, card),
                  !.playDeck[cardRow + 1][cardCol + 1] = NULL,
                  !.playDeck[2][cardCol + 1] = Top(state.mainDeck),
                  !.mainDeck = IF Len(@) = 0 THEN @ ELSE Pop(@)]

\* lines 187-191: push the card, promote the back card of the column, refill
PlayCascade(state, card, cardRow, cardCol, seqIndex) ==
    LET s1 == [state EXCEPT !.narrativeDeck[seqIndex + 1] = Append(@, card)]
        s2 == [s1 EXCEPT !.playDeck[cardRow + 1][cardCol + 1] = s1.playDeck[2][cardCol + 1]]
    IN  [s2 EXCEPT !.playDeck[2][cardCol + 1] = Top(s2.mainDeck),
                   !.mainDeck = IF Len(@) = 0 THEN @ ELSE Pop(@)]

\* the discard cascading the column as a play does
DiscardToForgottenCascade(state, card, cardRow, cardCol) ==
    [state EXCEPT !.forgottenPile = Append(@, card),
                  !.playDeck[cardRow + 1][cardCol + 1] = state.playDeck[2][cardCol + 1],
                  !.playDeck[2][cardCol + 1] = NULL]

\* lines 196-199
DiscardToForgotten(state, card, cardRow, cardCol) ==
    [state EXCEPT !.forgottenPile = Append(@, card),
                  !.playDeck[cardRow + 1][cardCol + 1] = NULL]

\* lines 205-209
WinCheck(state) ==
    IF checkWinCondition(state) THEN [state EXCEPT !.gameStatus = "won"] ELSE state

\* lines 112-209: the branch the updater takes while playing, and the state it returns
dropWhilePlaying(prevState, data, target) ==
    LET card == data.card
        row  == data.source.row
        col  == data.source.col
    IN  IF ~cardFoundAndRemoved(prevState, data)
        THEN [state |-> prevState, branch |-> "SourceMismatch"]
        ELSE IF target.kind = "narrative"
        THEN LET cards == prevState.narrativeDeck[target.idx + 1] IN
             IF SuitMismatch(cards, card)
             THEN [state |-> prevState, branch |-> "SuitMismatch"]
             ELSE IF DuplicateRank(cards, card)
             THEN [state |-> prevState, branch |-> "DuplicateRank"]
             ELSE IF SequenceMismatch(cards, card)
             THEN [state |-> prevState, branch |-> "SequenceMismatch"]
             ELSE LET res == processNarrativeSet(
                                PlayCascade(prevState, card, row, col, target.idx), target.idx)
                  IN  IF res.loss
                      THEN [state |-> res.state, branch |-> "narrative"]
                      ELSE [state |-> WinCheck(res.state), branch |-> "narrative"]
        ELSE IF target.kind = "forgotten"
        THEN [state |-> WinCheck(DiscardToForgotten(prevState, card, row, col)),
              branch |-> "forgotten"]
        ELSE [state |-> prevState, branch |-> "InvalidDestination"]

\* handleDrop without the status guard of line 110
handleDropUnguarded(prevState, data, target) == dropWhilePlaying(prevState, data, target)

\* handleDrop with the status guard testing for 'lost' only
handleDropGuardsLostOnly(prevState, data, target) ==
    IF prevState.gameStatus = "lost"
    THEN [state |-> prevState, branch |-> "NotPlaying"]
    ELSE dropWhilePlaying(prevState, data, target)

\* lines 109-110, then the rest of the updater
handleDropResult(prevState, data, target) ==
    IF prevState.gameStatus # "playing"
    THEN [state |-> prevState, branch |-> "NotPlaying"]
    ELSE dropWhilePlaying(prevState, data, target)

handleDrop(prevState, data, target) == handleDropResult(prevState, data, target).state

(***************************************************************************)
(* Royal handlers  (src/unnamed/part_006, lines 213-400)                   *)
(***************************************************************************)
NoJack == [card |-> NULL, row |-> 0 - 1, col |-> 0 - 1]

\* the slots holding the card, in the order the nested loops visit them
SlotsOf(state, card) ==
    {<<i, j>> \in (0..(NumRows - 1)) \X (0..(NumCols - 1)) :
        SlotAt(state, i, j) # NULL /\ SlotAt(state, i, j).id = card.id}

FirstSlot(S) == CHOOSE p \in S : \A q \in S : p[1] < q[1] \/ (p[1] = q[1] /\ p[2] <= q[2])

\* handleKingAction without the removal of the King from its slot
handleKingActionKeepsSlot(prevState, action, card) ==
    [prevState EXCEPT !.forgottenPile = Append(@, card)]

\* lines 231-257: the updater of handleKingAction
handleKingAction(prevState, action, card) ==
    LET found == SlotsOf(prevState, card)
        s1 == IF found = {} THEN prevState
              ELSE [prevState EXCEPT
                      !.playDeck[FirstSlot(found)[1] + 1][FirstSlot(found)[2] + 1] = NULL]
    IN  [s1 EXCEPT !.forgottenPile = Append(@, card)]

\* 'completeSet' lowering the goal of the suit instead of counting a set
handleQueenActionLowersGoal(prevState, action, card) ==
    LET found == SlotsOf(prevState, card) IN
    IF found = {} THEN prevState
    ELSE
      LET queenRow == FirstSlot(found)[1]
          queenCol == FirstSlot(found)[2]
      IN
      IF action = "completeSet"
      THEN IF card.suit = "joker" THEN prevState
           ELSE
             LET s1 == [prevState EXCEPT !.forgottenPile = Append(@, card)]
                 s2 == [s1 EXCEPT !.playDeck[queenRow + 1][queenCol + 1] =
                                       s1.playDeck[2][queenCol + 1]]
                 s3 == [s2 EXCEPT !.playDeck[2][queenCol + 1] = Top(s2.mainDeck),
                                  !.mainDeck = IF Len(@) = 0 THEN @ ELSE Pop(@)]
                 s4 == [s3 EXCEPT !.goals =
                           [i \in 1..Len(s3.goals) |->
                               IF s3.goals[i].suit = card.suit
                               THEN [suit |-> card.suit, count |-> s3.goals[i].count - 1]
                               ELSE s3.goals[i]]]
             IN  IF checkWinCondition(s4) THEN [s4 EXCEPT !.gameStatus = "won"] ELSE s4
      ELSE [prevState EXCEPT !.playDeck[queenRow + 1][queenCol + 1] = NULL,
                             !.forgottenPile = Append(@, card)]

\* handleQueenAction with the overrun test of lines 303-306 left out
handleQueenActionNoOverrun(prevState, action, card) ==
    LET found == SlotsOf(prevState, card) IN
    IF found = {} THEN prevState
    ELSE
      LET queenRow == FirstSlot(found)[1]
          queenCol == FirstSlot(found)[2]
      IN
      IF action = "completeSet"
      THEN IF card.suit = "joker" THEN prevState
           ELSE
             LET s1 == [prevState EXCEPT !.forgottenPile = Append(@, card)]
                 s2 == [s1 EXCEPT !.playDeck[queenRow + 1][queenCol + 1] =
                                       s1.playDeck[2][queenCol + 1]]
                 s3 == [s2 EXCEPT !.playDeck[2][queenCol + 1] = Top(s2.mainDeck),
                                  !.mainDeck = IF Len(@) = 0 THEN @ ELSE Pop(@)]
                 s4 == [s3 EXCEPT !.memoryPiles[card.suit].completedWithQueens = @ + 1]
             IN  IF checkWinCondition(s4) THEN [s4 EXCEPT !.gameStatus = "won"] ELSE s4
      ELSE [prevState EXCEPT !.playDeck[queenRow + 1][queenCol + 1] = NULL,
                             !.forgottenPile = Append(@, card)]

\* lines 264-320: the updater of handleQueenAction
handleQueenAction(prevState, action, card) ==
    LET found == SlotsOf(prevState, card) IN
    IF found = {} THEN prevState
    ELSE
      LET queenRow == FirstSlot(found)[1]
          queenCol == FirstSlot(found)[2]
      IN
      IF action = "completeSet"
      THEN IF card.suit = "joker" THEN prevState
           ELSE
             LET s1 == [prevState EXCEPT !.forgottenPile = Append(@, card)]
                 s2 == [s1 EXCEPT !.playDeck[queenRow + 1][queenCol + 1] =
                                       s1.playDeck[2][queenCol + 1]]
                 s3 == [s2 EXCEPT !.playDeck[2][queenCol + 1] = Top(s2.mainDeck),
                                  !.mainDeck = IF Len(@) = 0 THEN @ ELSE Pop(@)]
                 s4 == [s3 EXCEPT !.memoryPiles[card.suit].completedWithQueens = @ + 1]
             IN  IF getCompletedSets(s4.memoryPiles[card.suit]) > GoalOf(s4, card.suit).count
                 THEN [s4 EXCEPT !.gameStatus = "lost"]
                 ELSE IF checkWinCondition(s4)
                 THEN [s4 EXCEPT !.gameStatus = "won"]
                 ELSE s4
      ELSE [prevState EXCEPT !.playDeck[queenRow + 1][queenCol + 1] = NULL,
                             !.forgottenPile = Append(@, card)]

\* the Jack pushed to the forgotten pile and left in its slot
handleJackDiscardKeepsSlot(prevState, jack) ==
    [prevState EXCEPT !.forgottenPile = Append(@, jack.card)]

\* lines 329-337: the updater of handleJackAction('discardJack')
handleJackDiscard(prevState, jack) ==
    [prevState EXCEPT !.playDeck[jack.row + 1][jack.col + 1] = NULL,
                      !.forgottenPile = Append(@, jack.card)]

\* forgottenPile.findIndex(c => c.id === selectedCard.id), 0-based, -1 if absent
FindIndex(pile, card) ==
    IF \E i \in 1..Len(pile) : pile[i].id = card.id
    THEN (CHOOSE i \in 1..Len(pile) :
            pile[i].id = card.id /\ \A j \in 1..(i - 1) : pile[j].id # card.id) - 1
    ELSE 0 - 1

\* splice(index, 1)
Splice(pile, index) == SubSeq(pile, 1, index) \o SubSeq(pile, index + 2, Len(pile))

\* the resurrection leaving the selected card in the forgotten pile too
handleResurrectSelectNoSplice(prevState, jack, selectedCard) ==
    [prevState EXCEPT !.forgottenPile = Append(@, jack.card),
                      !.playDeck[jack.row + 1][jack.col + 1] = selectedCard]

\* lines 352-368: the updater of handleResurrectSelect
handleResurrectSelect(prevState, jack, selectedCard) ==
    LET cardIndex == FindIndex(prevState.forgottenPile, selectedCard)
        s1 == IF cardIndex > 0 - 1
              THEN [prevState EXCEPT !.forgottenPile = Splice(@, cardIndex)]
              ELSE prevState
    IN  [s1 EXCEPT !.forgottenPile = Append(@, jack.card),
                   !.playDeck[jack.row + 1][jack.col + 1] = selectedCard]

\* the discard putting the top card of the reserve in the emptied sequence
handleConfirmDiscardRefills(prevState, index) ==
    IF index \in 0..(Len(prevState.narrativeDeck) - 1)
    THEN [prevState EXCEPT !.forgottenPile = @ \o prevState.narrativeDeck[index + 1],
                           !.narrativeDeck[index + 1] =
                               IF Len(prevState.mainDeck) = 0 THEN <<>>
                               ELSE <<Top(prevState.mainDeck)>>,
                           !.mainDeck = IF Len(@) = 0 THEN @ ELSE Pop(@)]
    ELSE prevState

\* the discard taking only the last card of the sequence
handleConfirmDiscardLastCard(prevState, index) ==
    IF index \in 0..(Len(prevState.narrativeDeck) - 1)
       /\ Len(prevState.narrativeDeck[index + 1]) > 0
    THEN LET cards == prevState.narrativeDeck[index + 1] IN
         [prevState EXCEPT !.forgottenPile = Append(@, cards[Len(cards)]),
                           !.narrativeDeck[index + 1] = SubSeq(cards, 1, Len(cards) - 1)]
    ELSE prevState

\* lines 384-396: the updater of handleConfirmDiscard(true)
handleConfirmDiscard(prevState, index) ==
    IF index \in 0..(Len(prevState.narrativeDeck) - 1)
    THEN [prevState EXCEPT !.forgottenPile = @ \o prevState.narrativeDeck[index + 1],
                           !.narrativeDeck[index + 1] = <<>>]
    ELSE prevState

(***************************************************************************)
(* Effects and rendering  (src/unnamed/part_006, lines 402-468, 530-692)   *)
(***************************************************************************)
playDeckEmpty(state) ==
    \A i \in 0..(NumRows - 1), j \in 0..(NumCols - 1) : SlotAt(state, i, j) = NULL

topRowEmpty(state) == \A j \in 0..(NumCols - 1) : SlotAt(state, 0, j) = NULL

\* the exhaustion test looking at the reserve only
ExhaustionDueReserveOnly(state) ==
    /\ state.gameStatus = "playing"
    /\ Len(state.mainDeck) = 0
    /\ ~checkWinCondition(state)

\* lines 408-420: the condition under which the exhaustion effect sets 'lost'
ExhaustionDue(state) ==
    /\ state.gameStatus = "playing"
    /\ Len(state.mainDeck) = 0
    /\ playDeckEmpty(state)
    /\ ~checkWinCondition(state)

exhaustionUpdater(prevState) == [prevState EXCEPT !.gameStatus = "lost"]

\* lines 422-427
RefreshDue(state) ==
    /\ state.gameStatus = "playing"
    /\ topRowEmpty(state)
    /\ Len(state.mainDeck) > 0

\* the refresh dealing a back row of only as many slots as the reserve has cards
refreshUpdaterNoPadding(prevState) ==
    IF ~topRowEmpty(prevState) THEN prevState
    ELSE [prevState EXCEPT !.playDeck = <<prevState.playDeck[2],
                                          DealRow(prevState.mainDeck,
                                                  Min({4, Len(prevState.mainDeck)}))>>,
                           !.mainDeck = PopN(@, 4)]

\* lines 428-445
refreshUpdater(prevState) ==
    IF ~topRowEmpty(prevState) THEN prevState
    ELSE [prevState EXCEPT !.playDeck = <<prevState.playDeck[2], DealRow(prevState.mainDeck, 4)>>,
                           !.mainDeck = PopN(@, 4)]

\* lines 402-406
OutcomeDue == gameState.gameStatus # "playing" /\ gameOutcome # gameState.gameStatus

EffectPending == OutcomeDue \/ ExhaustionDue(gameState) \/ RefreshDue(gameState)

\* isPlayable without the loop over the slots to the left
isPlayableFrontRow(state, rowIndex, colIndex) ==
    /\ state.gameStatus = "playing"
    /\ SlotAt(state, rowIndex, colIndex) # NULL
    /\ rowIndex = 0

\* lines 449-468
isPlayable(state, rowIndex, colIndex) ==
    /\ state.gameStatus = "playing"
    /\ SlotAt(state, rowIndex, colIndex) # NULL
    /\ rowIndex = 0
    /\ \A i \in 0..(colIndex - 1) : SlotAt(state, 0, i) = NULL

\* the isDraggable prop without the exclusion of K, Q and J
isDraggableAnyRank(state, rowIndex, colIndex) ==
    rowIndex = 0 /\ isPlayable(state, 0, colIndex)

\* line 536
isDraggable(state, rowIndex, colIndex) ==
    /\ rowIndex = 0
    /\ isPlayable(state, 0, colIndex)
    /\ SlotAt(state, 0, colIndex).rank \notin {"K", "Q", "J"}

\* the open= props of the dialogs, lines 594-692: an open dialog is modal
ModalOpen ==
    \/ gameOutcome # "null"
    \/ kingAction # NULL
    \/ queenAction # NULL
    \/ jackAction # NoJack
    \/ showResurrectDialog
    \/ confirmDiscard # NoIndex

(***************************************************************************)
(* Actions: the events of the rendered board, then the effects.            *)
(* lastOp records the handler that ran last, the branch it took, the card  *)
(* it was given and the index (target sequence or column) it was given.    *)
(***************************************************************************)
\* a user event is handled once the effects of the last render have run;
\* opCount counts the user events that changed the game state
UserTurn ==
    /\ ~EffectPending
    /\ opCount < MaxOps
    /\ opCount' = IF gameState' # gameState THEN opCount + 1 ELSE opCount

Op(op, branch, card, idx) == [op |-> op, branch |-> branch, card |-> card, idx |-> idx]

UITargets == {NarrativeTarget(k) : k \in 0..(NumNarrative - 1)} \cup {ForgottenTarget}

\* a card dragged from a draggable slot and dropped on a CardSlot wired to handleDrop
DragDrop(col, target) ==
    /\ ~ModalOpen
    /\ isDraggable(gameState, 0, col)
    /\ LET data == [card |-> SlotAt(gameState, 0, col), source |-> PlaySource(0, col)]
           res  == handleDropResult(gameState, data, target)
       IN  /\ gameState' = handleDrop(gameState, data, target)
           /\ lastOp' = Op("handleDrop", res.branch, data.card, target.idx)
    /\ UNCHANGED <<gameOutcome, uiVars>>
    /\ UserTurn

\* lines 213-226 behind the onClick gating of lines 537-544
handleKingClick(col) ==
    /\ ~ModalOpen
    /\ isPlayable(gameState, 0, col)
    /\ SlotAt(gameState, 0, col).rank = "K"
    /\ gameState.gameStatus = "playing"
    /\ kingAction' = SlotAt(gameState, 0, col)
    /\ lastOp' = Op("handleKingClick", "open", SlotAt(gameState, 0, col), col)
    /\ UNCHANGED <<gameState, gameOutcome, queenAction, jackAction, isDiscardMode,
                   confirmDiscard, showResurrectDialog>>
    /\ UserTurn

handleQueenClick(col) ==
    /\ ~ModalOpen
    /\ isPlayable(gameState, 0, col)
    /\ SlotAt(gameState, 0, col).rank = "Q"
    /\ gameState.gameStatus = "playing"
    /\ queenAction' = SlotAt(gameState, 0, col)
    /\ lastOp' = Op("handleQueenClick", "open", SlotAt(gameState, 0, col), col)
    /\ UNCHANGED <<gameState, gameOutcome, kingAction, jackAction, isDiscardMode,
                   confirmDiscard, showResurrectDialog>>
    /\ UserTurn

handleJackClick(col) ==
    /\ ~ModalOpen
    /\ isPlayable(gameState, 0, col)
    /\ SlotAt(gameState, 0, col).rank = "J"
    /\ gameState.gameStatus = "playing"
    /\ jackAction' = [card |-> SlotAt(gameState, 0, col), row |-> 0, col |-> col]
    /\ lastOp' = Op("handleJackClick", "open", SlotAt(gameState, 0, col), col)
    /\ UNCHANGED <<gameState, gameOutcome, kingAction, queenAction, isDiscardMode,
                   confirmDiscard, showResurrectDialog>>
    /\ UserTurn

\* the two action buttons of the King dialog, lines 623-624
KingAction(action) ==
    /\ kingAction # NULL
    /\ gameState' = handleKingAction(gameState, action, kingAction)
    /\ isDiscardMode' = (IF action = "discardNarrative" THEN TRUE ELSE isDiscardMode)
    /\ kingAction' = NULL
    /\ lastOp' = Op("handleKingAction", action, kingAction, NoIndex)
    /\ UNCHANGED <<gameOutcome, queenAction, jackAction, confirmDiscard, showResurrectDialog>>
    /\ UserTurn

\* the Cancel button of the King dialog, line 625
KingCancel ==
    /\ kingAction # NULL
    /\ kingAction' = NULL
    /\ lastOp' = Op("cancel", "king", kingAction, NoIndex)
    /\ UNCHANGED <<gameState, gameOutcome, queenAction, jackAction, isDiscardMode,
                   confirmDiscard, showResurrectDialog>>
    /\ UserTurn

\* lines 639-640
QueenAction(action) ==
    /\ queenAction # NULL
    /\ gameState' = handleQueenAction(gameState, action, queenAction)
    /\ queenAction' = NULL
    /\ lastOp' = Op("handleQueenAction", action, queenAction, NoIndex)
    /\ UNCHANGED <<gameOutcome, kingAction, jackAction, isDiscardMode, confirmDiscard,
                   showResurrectDialog>>
    /\ UserTurn

\* line 641
QueenCancel ==
    /\ queenAction # NULL
    /\ queenAction' = NULL
    /\ lastOp' = Op("cancel", "queen", queenAction, NoIndex)
    /\ UNCHANGED <<gameState, gameOutcome, kingAction, jackAction, isDiscardMode,
                   confirmDiscard, showResurrectDialog>>
    /\ UserTurn

\* handleJackAction without the empty-pile test of lines 340-344
JackActionNoEmptyTest(action) ==
    /\ jackAction # NoJack /\ ~showResurrectDialog
    /\ IF action = "discardJack"
       THEN /\ gameState' = handleJackDiscard(gameState, jackAction)
            /\ jackAction' = NoJack
            /\ lastOp' = Op("handleJackAction", action, jackAction.card, jackAction.col)
            /\ UNCHANGED showResurrectDialog
       ELSE /\ showResurrectDialog' = TRUE
            /\ lastOp' = Op("handleJackAction", action, jackAction.card, jackAction.col)
            /\ UNCHANGED <<gameState, jackAction>>
    /\ UNCHANGED <<gameOutcome, kingAction, queenAction, isDiscardMode, confirmDiscard>>
    /\ UserTurn

\* handleJackAction, lines 325-347, from the buttons of lines 655-656
JackAction(action) ==
    /\ jackAction # NoJack /\ ~showResurrectDialog
    /\ IF action = "discardJack"
       THEN /\ gameState' = handleJackDiscard(gameState, jackAction)
            /\ jackAction' = NoJack
            /\ lastOp' = Op("handleJackAction", action, jackAction.card, jackAction.col)
            /\ UNCHANGED showResurrectDialog
       ELSE IF Len(gameState.forgottenPile) = 0
       THEN /\ jackAction' = NoJack
            /\ lastOp' = Op("handleJackAction", "NoResurrectionTargets", jackAction.card,
                            jackAction.col)
            /\ UNCHANGED <<gameState, showResurrectDialog>>
       ELSE /\ showResurrectDialog' = TRUE
            /\ lastOp' = Op("handleJackAction", action, jackAction.card, jackAction.col)
            /\ UNCHANGED <<gameState, jackAction>>
    /\ UNCHANGED <<gameOutcome, kingAction, queenAction, isDiscardMode, confirmDiscard>>
    /\ UserTurn

\* line 657
JackCancel ==
    /\ jackAction # NoJack /\ ~showResurrectDialog
    /\ jackAction' = NoJack
    /\ lastOp' = Op("cancel", "jack", jackAction.card, jackAction.col)
    /\ UNCHANGED <<gameState, gameOutcome, kingAction, queenAction, isDiscardMode,
                   confirmDiscard, showResurrectDialog>>
    /\ UserTurn

\* a card of the resurrect dialog clicked, lines 669-673 and 349-372
ResurrectSelectEvent(i) ==
    /\ showResurrectDialog /\ jackAction # NoJack
    /\ i \in 1..Len(gameState.forgottenPile)
    /\ gameState' = handleResurrectSelect(gameState, jackAction, gameState.forgottenPile[i])
    /\ showResurrectDialog' = FALSE
    /\ jackAction' = NoJack
    /\ lastOp' = Op("handleResurrectSelect", "resurrect", gameState.forgottenPile[i],
                    jackAction.col)
    /\ UNCHANGED <<gameOutcome, kingAction, queenAction, isDiscardMode, confirmDiscard>>

ResurrectSelect(i) == ResurrectSelectEvent(i) /\ UserTurn

\* the resurrect dialog dismissed: onOpenChange={setShowResurrectDialog}, line 662
ResurrectClose ==
    /\ showResurrectDialog
    /\ showResurrectDialog' = FALSE
    /\ lastOp' = Op("cancel", "resurrect", jackAction.card, jackAction.col)
    /\ UNCHANGED <<gameState, gameOutcome, kingAction, queenAction, jackAction,
                   isDiscardMode, confirmDiscard>>
    /\ UserTurn

\* lines 375-378 behind the overlay of lines 499-504
handleNarrativeCardClick(index) ==
    /\ ~ModalOpen
    /\ isDiscardMode
    /\ Len(gameState.narrativeDeck[index + 1]) > 0
    /\ confirmDiscard' = index
    /\ lastOp' = Op("handleNarrativeCardClick", "open", NULL, index)
    /\ UNCHANGED <<gameState, gameOutcome, kingAction, queenAction, jackAction,
                   isDiscardMode, showResurrectDialog>>
    /\ UserTurn

\* handleConfirmDiscard moving the pile whichever button was pressed
ConfirmDiscardAlways(confirmed) ==
    /\ confirmDiscard # NoIndex
    /\ gameState' = handleConfirmDiscard(gameState, confirmDiscard)
    /\ confirmDiscard' = NoIndex
    /\ isDiscardMode' = FALSE
    /\ lastOp' = Op("handleConfirmDiscard", IF confirmed THEN "confirmed" ELSE "cancelled",
                    NULL, confirmDiscard)
    /\ UNCHANGED <<gameOutcome, kingAction, queenAction, jackAction, showResurrectDialog>>
    /\ UserTurn

\* lines 380-400, from the buttons of lines 688-689
ConfirmDiscard(confirmed) ==
    /\ confirmDiscard # NoIndex
    /\ gameState' = IF confirmed THEN handleConfirmDiscard(gameState, confirmDiscard)
                    ELSE gameState
    /\ confirmDiscard' = NoIndex
    /\ isDiscardMode' = FALSE
    /\ lastOp' = Op("handleConfirmDiscard", IF confirmed THEN "confirmed" ELSE "cancelled",
                    NULL, confirmDiscard)
    /\ UNCHANGED <<gameOutcome, kingAction, queenAction, jackAction, showResurrectDialog>>
    /\ UserTurn

\* lines 402-406
OutcomeEffect ==
    /\ OutcomeDue
    /\ gameOutcome' = gameState.gameStatus
    /\ UNCHANGED <<gameState, uiVars, lastOp, opCount>>

\* lines 408-420
ExhaustionEffect ==
    /\ ExhaustionDue(gameState)
    /\ gameState' = exhaustionUpdater(gameState)
    /\ lastOp' = Op("exhaustionEffect", "lost", NULL, NoIndex)
    /\ UNCHANGED <<gameOutcome, uiVars, opCount>>

\* lines 422-447
RefreshEffect ==
    /\ RefreshDue(gameState)
    /\ gameState' = refreshUpdater(gameState)
    /\ lastOp' = Op("refreshEffect", "refreshed", NULL, NoIndex)
    /\ UNCHANGED <<gameOutcome, uiVars, opCount>>

(***************************************************************************)
(* Specification of the board as rendered, from setupGame.                 *)
(***************************************************************************)
\* Math.floor(Math.random() * 3) without the "+ 1"
RandomCountFromZero(seed, i) == (seed \div (3 ^ (i - 1))) % 3

\* Math.floor(Math.random() * 3) + 1 of generateGoals, for one seed and suit index
RandomCount(seed, i) == ((seed \div (3 ^ (i - 1))) % 3) + 1

GoalCounts(seed) == [i \in 1..NumSuits |-> RandomCount(seed, i)]

InitUI ==
    /\ gameOutcome = "null"
    /\ kingAction = NULL
    /\ queenAction = NULL
    /\ jackAction = NoJack
    /\ isDiscardMode = FALSE
    /\ confirmDiscard = NoIndex
    /\ showResurrectDialog = FALSE
    /\ lastOp = Op("setupGame", "init", NULL, NoIndex)
    /\ opCount = 0

Init ==
    /\ \E seed \in 0..MaxSeed :
          gameState = setupGame(SubDeck, DeckSuits, GoalCounts(seed), seed)
    /\ InitUI

Next ==
    \/ \E col \in 0..(NumCols - 1), target \in UITargets : DragDrop(col, target)
    \/ \E col \in 0..(NumCols - 1) : handleKingClick(col)
    \/ \E col \in 0..(NumCols - 1) : handleQueenClick(col)
    \/ \E col \in 0..(NumCols - 1) : handleJackClick(col)
    \/ \E action \in {"discardNarrative", "discardKing"} : KingAction(action)
    \/ KingCancel
    \/ \E action \in {"completeSet", "discardQueen"} : QueenAction(action)
    \/ QueenCancel
    \/ \E action \in {"discardJack", "resurrectCard"} : JackAction(action)
    \/ JackCancel
    \/ \E i \in 1..Len(gameState.forgottenPile) : ResurrectSelect(i)
    \/ ResurrectClose
    \/ \E index \in 0..(NumNarrative - 1) : handleNarrativeCardClick(index)
    \/ \E confirmed \in BOOLEAN : ConfirmDiscard(confirmed)
    \/ OutcomeEffect
    \/ ExhaustionEffect
    \/ RefreshEffect

Spec == Init /\ [][Next]_vars

(***************************************************************************)
(* Specification of handleDrop as a handler.  The data of a drop event is  *)
(* whatever the drag carried, so besides the events of the rendered board  *)
(* handleDrop is called with any card, source and target: in every state   *)
(* once the game is over, and while playing with a card that is not the    *)
(* one at the named slot or with a target that is no drop slot.  (While    *)
(* playing, the board itself only lets a draggable card be dropped on a    *)
(* narrative slot or on the forgotten pile: that is DragDrop.)             *)
(***************************************************************************)
\* the sources and targets the drop events of this specification name
DropSources == {PlaySource(0, 0), PlaySource(0, 1), PlaySource(1, 0), OtherSource}

DropTargets == {NarrativeTarget(0), NarrativeTarget(NumNarrative - 1), ForgottenTarget,
                OtherTarget}

SourceNamesCard(state, card, source) ==
    /\ source.kind = "play"
    /\ SlotAt(state, source.row, source.col) = card

\* the cards the drop events of this specification carry
DropCards(state) ==
    ({SlotAt(state, 0, 0), SlotAt(state, 0, 1), SlotAt(state, 1, 0)} \cup {Joker1}) \ {NULL}

DropAny(card, source, target) ==
    /\ \/ gameState.gameStatus # "playing"
       \/ ~SourceNamesCard(gameState, card, source)
       \/ target = OtherTarget
    /\ LET data == [card |-> card, source |-> source]
           res  == handleDropResult(gameState, data, target)
       IN  /\ gameState' = handleDrop(gameState, data, target)
           /\ lastOp' = Op("handleDrop", res.branch, NULL, NoIndex)
    /\ UNCHANGED <<gameOutcome, uiVars>>
    /\ UserTurn

NextAPI ==
    \/ Next
    \/ \E card \in DropCards(gameState), source \in DropSources, target \in DropTargets :
          DropAny(card, source, target)

\* one shuffle outcome
InitAPI ==
    /\ gameState = setupGame(SubDeck, DeckSuits, GoalCounts(0), 0)
    /\ InitUI

SpecAPI == InitAPI /\ [][NextAPI]_vars

(***************************************************************************)
(* Specification of the royal commits as handlers.  handleKingAction,      *)
(* handleJackAction and handleResurrectSelect take the royal from their    *)
(* argument or from the jackAction of the render that created them, and    *)
(* their updaters run on whatever state is current: besides the events of  *)
(* the rendered board, the handler that has just committed a royal is      *)
(* called once more with the same royal, before any other event or effect. *)
(***************************************************************************)
\* the number of times the card is in the forgotten pile
TimesForgotten(state, card) ==
    Cardinality({i \in 1..Len(state.forgottenPile) : state.forgottenPile[i].id = card.id})

\* a user event that needs no render in between
BatchedTurn ==
    /\ opCount < MaxOps
    /\ opCount' = IF gameState' # gameState THEN opCount + 1 ELSE opCount

\* handleKingAction(action, card) called again with the King it has committed
KingActionAgain(action) ==
    /\ lastOp.op = "handleKingAction"
    /\ TimesForgotten(gameState, lastOp.card) = 1
    /\ gameState' = handleKingAction(gameState, action, lastOp.card)
    /\ kingAction' = NULL
    /\ isDiscardMode' = (isDiscardMode \/ action = "discardNarrative")
    /\ lastOp' = Op("handleKingAction", action, lastOp.card, NoIndex)
    /\ UNCHANGED <<gameOutcome, queenAction, jackAction, confirmDiscard, showResurrectDialog>>
    /\ BatchedTurn

\* handleJackAction('discardJack') of the same render called again
JackDiscardAgain ==
    /\ lastOp.op = "handleJackAction" /\ lastOp.branch = "discardJack"
    /\ TimesForgotten(gameState, lastOp.card) = 1
    /\ gameState' = handleJackDiscard(gameState,
                                      [card |-> lastOp.card, row |-> 0, col |-> lastOp.idx])
    /\ jackAction' = NoJack
    /\ lastOp' = Op("handleJackAction", "discardJack", lastOp.card, lastOp.idx)
    /\ UNCHANGED <<gameOutcome, kingAction, queenAction, isDiscardMode, confirmDiscard,
                   showResurrectDialog>>
    /\ BatchedTurn

\* handleResurrectSelect(selectedCard) of the same render called again: the
\* Jack of that render's jackAction is the card the first call pushed last
ResurrectSelectAgain ==
    /\ lastOp.op = "handleResurrectSelect"
    /\ gameState.forgottenPile # <<>>
    /\ LET jackCard == gameState.forgottenPile[Len(gameState.forgottenPile)]
       IN  /\ TimesForgotten(gameState, jackCard) = 1
           /\ gameState' = handleResurrectSelect(
                              gameState, [card |-> jackCard, row |-> 0, col |-> lastOp.idx],
                              lastOp.card)
    /\ showResurrectDialog' = FALSE
    /\ jackAction' = NoJack
    /\ lastOp' = Op("handleResurrectSelect", "resurrect", lastOp.card, lastOp.idx)
    /\ UNCHANGED <<gameOutcome, kingAction, queenAction, isDiscardMode, confirmDiscard>>
    /\ BatchedTurn

NextCommit ==
    \/ Next
    \/ \E action \in {"discardNarrative", "discardKing"} : KingActionAgain(action)
    \/ JackDiscardAgain
    \/ ResurrectSelectAgain

SpecCommit == InitAPI /\ [][NextCommit]_vars

(***************************************************************************)
(* Specification of the sequence rules on the full deck.  Init is a state  *)
(* setupGame returns for the 54 cards: four narrative sequences of one     *)
(* ranked card each, two full play rows and the rest in the reserve; the   *)
(* shuffle decides which card a opens sequence 0 and which cards b and c   *)
(* are at the front and the back of column 0.  The first MaxSeqOps drops   *)
(* of the game are explored.                                               *)
(***************************************************************************)
MaxSeqOps == 2

\* the cards the shuffles of this specification bring to sequence 0 and column 0
SeqOpeners == {MkCard(RANKS[i], "spades") : i \in 1..10}

SeqHand == SeqOpeners \cup {MkCard("5", "hearts"), MkCard("6", "hearts"), Joker1, Joker2}

\* the rest of the deal: ranked clubs and diamonds
SeqFixedNarrative == <<MkCard("A", "clubs")>> \o <<MkCard("9", "clubs")>> \o <<MkCard("4", "diamonds")>>

SeqFixedFront == <<MkCard("K", "clubs"), MkCard("2", "diamonds"), MkCard("Q", "hearts")>>

SeqFixedBack == <<MkCard("J", "clubs"), MkCard("7", "diamonds"), MkCard("3", "clubs")>>

SeqBoard(a, b, c) ==
    LET dealt == {a, b, c} \cup SeqToSet(SeqFixedNarrative) \cup SeqToSet(SeqFixedFront)
                 \cup SeqToSet(SeqFixedBack)
    IN [goals |-> generateGoals(SUITS, [i \in 1..Len(SUITS) |-> RandomCount(0, i)]),
        playDeck |-> <<<<b>> \o SeqFixedFront, <<c>> \o SeqFixedBack>>,
        narrativeDeck |-> <<<<a>>>> \o [i \in 1..3 |-> <<SeqFixedNarrative[i]>>],
        forgottenPile |-> <<>>,
        memoryPiles |-> [s \in SeqToSet(SUITS) |-> [cards |-> <<>>, completedWithQueens |-> 0]],
        mainDeck |-> SelectSeq(createDeck, LAMBDA x : x \notin dealt),
        gameStatus |-> "playing",
        history |-> <<>>]

InitSeq ==
    /\ \E a \in SeqOpeners, b \in SeqHand, c \in SeqHand :
          /\ a # b /\ a # c /\ b # c
          /\ gameState = SeqBoard(a, b, c)
    /\ InitUI

NextSeq ==
    \E target \in UITargets : opCount < MaxSeqOps /\ DragDrop(0, target)

SpecSeq == InitSeq /\ [][NextSeq]_vars

(***************************************************************************)
(* Specification of the opening of a game on the full deck: setupGame on   *)
(* the 54 cards of createDeck with goals for the four suits, for the       *)
(* shuffle outcomes of seeds 0..MaxDealSeed, then the events of the        *)
(* rendered board up to MaxDealOps state-changing events.  The reserve     *)
(* holds 42 cards after the deal, so it is never exhausted here and the    *)
(* exhaustion effect never runs.                                           *)
(***************************************************************************)
MaxDealSeed == 5

MaxDealOps == 8

InitDeal ==
    /\ \E seed \in 0..MaxDealSeed :
          gameState = setupGame(createDeck, SUITS,
                                [i \in 1..Len(SUITS) |-> RandomCount(seed, i)], seed)
    /\ InitUI

DealTurn == opCount < MaxDealOps

NextDeal ==
    \/ \E col \in 0..(NumCols - 1), target \in UITargets : DealTurn /\ DragDrop(col, target)
    \/ \E col \in 0..(NumCols - 1) : DealTurn /\ handleKingClick(col)
    \/ \E col \in 0..(NumCols - 1) : DealTurn /\ handleQueenClick(col)
    \/ \E col \in 0..(NumCols - 1) : DealTurn /\ handleJackClick(col)
    \/ \E action \in {"discardNarrative", "discardKing"} : DealTurn /\ KingAction(action)
    \/ DealTurn /\ KingCancel
    \/ \E action \in {"completeSet", "discardQueen"} : DealTurn /\ QueenAction(action)
    \/ DealTurn /\ QueenCancel
    \/ \E action \in {"discardJack", "resurrectCard"} : DealTurn /\ JackAction(action)
    \/ DealTurn /\ JackCancel
    \/ \E i \in 1..Len(gameState.forgottenPile) : DealTurn /\ ResurrectSelect(i)
    \/ DealTurn /\ ResurrectClose
    \/ \E index \in 0..(NumNarrative - 1) : DealTurn /\ handleNarrativeCardClick(index)
    \/ \E confirmed \in BOOLEAN : DealTurn /\ ConfirmDiscard(confirmed)
    \/ OutcomeEffect
    \/ RefreshEffect

SpecDeal == InitDeal /\ [][NextDeal]_vars

(***************************************************************************)
(* Specification of unbounded play on the full deck: the deals and events  *)
(* of SpecDeal, with the resurrections left out of the count of events, so *)
(* that a Jack's resurrection can be repeated without end.  React runs the *)
(* effects of a render whenever they are due: the effects are weakly fair; *)
(* nothing makes the player go on playing.                                 *)
(***************************************************************************)
\* a resurrection, taken once the effects of the last render have run
ResurrectSelectUncounted(i) ==
    /\ ResurrectSelectEvent(i)
    /\ ~EffectPending
    /\ UNCHANGED opCount

NextLoop ==
    \/ \E col \in 0..(NumCols - 1), target \in UITargets : DealTurn /\ DragDrop(col, target)
    \/ \E col \in 0..(NumCols - 1) : DealTurn /\ handleKingClick(col)
    \/ \E col \in 0..(NumCols - 1) : DealTurn /\ handleQueenClick(col)
    \/ \E col \in 0..(NumCols - 1) : DealTurn /\ handleJackClick(col)
    \/ \E action \in {"discardNarrative", "discardKing"} : DealTurn /\ KingAction(action)
    \/ DealTurn /\ KingCancel
    \/ \E action \in {"completeSet", "discardQueen"} : DealTurn /\ QueenAction(action)
    \/ DealTurn /\ QueenCancel
    \/ \E action \in {"discardJack", "resurrectCard"} : DealTurn /\ JackAction(action)
    \/ DealTurn /\ JackCancel
    \/ \E i \in 1..Len(gameState.forgottenPile) : ResurrectSelectUncounted(i)
    \/ DealTurn /\ ResurrectClose
    \/ \E index \in 0..(NumNarrative - 1) : DealTurn /\ handleNarrativeCardClick(index)
    \/ \E confirmed \in BOOLEAN : DealTurn /\ ConfirmDiscard(confirmed)
    \/ OutcomeEffect
    \/ RefreshEffect

SpecLoop ==
    InitDeal /\ [][NextLoop]_vars /\ WF_vars(OutcomeEffect) /\ WF_vars(RefreshEffect)

(***************************************************************************)
(* Properties.                                                             *)
(***************************************************************************)
RECURSIVE Flatten(_)
Flatten(seqs) == IF seqs = <<>> THEN <<>> ELSE Head(seqs) \o Flatten(Tail(seqs))

\* the cards of every container of a state, one entry per occurrence
ContainerCards(state) ==
    SelectSeq(Flatten(state.playDeck), LAMBDA c : c # NULL)
    \o Flatten(state.narrativeDeck)
    \o state.forgottenPile
    \o Flatten([i \in 1..Len(state.goals) |-> state.memoryPiles[state.goals[i].suit].cards])
    \o state.mainDeck

InPlayRows(state, card) ==
    \E r \in 0..(NumRows - 1), c \in 0..(NumCols - 1) : SlotAt(state, r, c) = card

InForgotten(state, card) == \E i \in 1..Len(state.forgottenPile) : state.forgottenPile[i] = card

\* completedSets(suit) and goal(suit).count as the data model states them
CompletedSets(state, suit) ==
    (Len(state.memoryPiles[suit].cards) \div 3) + state.memoryPiles[suit].completedWithQueens

GoalCount(state, suit) ==
    LET i == CHOOSE j \in 1..Len(state.goals) : state.goals[j].suit = suit
    IN  state.goals[i].count

GoalSuits(state) == {state.goals[i].suit : i \in 1..Len(state.goals)}

Overrun(state) == \E s \in GoalSuits(state) : CompletedSets(state, s) > GoalCount(state, s)

AllGoalsMet(state) == \A s \in GoalSuits(state) : CompletedSets(state, s) >= GoalCount(state, s)

\* C1: card conservation.  In every state reachable from setupGame by the
\* board's operations, every card id of the dealt deck occurs in exactly one
\* container (play rows, narrative sequences, forgotten pile, memory piles,
\* reserve) and no other card occurs.
\* (as many occurrences as dealt cards, and every dealt id among them)
C1_CardConservation ==
    /\ Len(ContainerCards(gameState)) = Len(SubDeck)
    /\ {c.id : c \in SeqToSet(ContainerCards(gameState))} = {c.id : c \in SeqToSet(SubDeck)}

\* a King has been committed after a set was banked and a card resurrected
C1_Witness ==
    /\ lastOp.op = "handleKingAction"
    /\ \E s \in GoalSuits(gameState) : Len(gameState.memoryPiles[s].cards) > 0
    /\ \E i \in 1..Len(gameState.forgottenPile) : gameState.forgottenPile[i].rank = "J"

\* C2: overrun is terminal.  In every state in which some suit has
\* completedSets above its goal the status is 'lost' (so the operation that
\* made the overrun returned 'lost'), and 'lost' is never left.
C2_OverrunTerminal ==
    /\ [](Overrun(gameState) => gameState.gameStatus = "lost")
    /\ [][gameState.gameStatus = "lost" => gameState'.gameStatus = "lost"]_vars

\* a drop resolved a set that took its suit above the goal
C2_Witness ==
    /\ lastOp.op = "handleDrop"
    /\ lastOp.branch = "narrative"
    /\ Overrun(gameState)
    /\ gameState.gameStatus = "lost"

\* C3: the status changes only from 'playing' to 'won' or from 'playing' to
\* 'lost'; no step changes it once it is 'won' or 'lost'.
C3_StatusTransitions ==
    [][gameState'.gameStatus # gameState.gameStatus
         => /\ gameState.gameStatus = "playing"
            /\ gameState'.gameStatus \in {"won", "lost"}]_vars

\* handleDrop ran on a won game that still has a card in the back row
C3_Witness ==
    /\ gameState.gameStatus = "won"
    /\ gameOutcome = "won"
    /\ lastOp.op = "handleDrop"
    /\ lastOp.branch = "NotPlaying"
    /\ \E c \in 0..(NumCols - 1) : SlotAt(gameState, 1, c) # NULL

\* C4: terminal monotonicity.  A handleDrop step taken when the status is
\* 'won' or 'lost' leaves the whole game state (every container) unchanged,
\* whatever card, source and target it is given.
C4_TerminalDrop ==
    [][(gameState.gameStatus # "playing" /\ lastOp'.op = "handleDrop" /\ opCount' >= opCount
        /\ gameOutcome' = gameOutcome)
         => gameState' = gameState]_vars

\* handleDrop ran on a finished game in which cards are still in the play rows
C4_Witness ==
    /\ gameState.gameStatus # "playing"
    /\ lastOp.op = "handleDrop"
    /\ lastOp.branch = "NotPlaying"
    /\ gameOutcome = gameState.gameStatus
    /\ SlotAt(gameState, 0, 2) # NULL

Abs(x) == IF x < 0 THEN 0 - x ELSE x

Ranked(cards) == SelectSeq(cards, LAMBDA c : c.rank # "Joker")

RankNumbers(cards) == {IndexOf(RANK_ORDER, cards[i].rank) : i \in 1..Len(cards)}

\* the admission window as the rules state it, for a ranked card and 1 or 2 ranked cards
InWindow(cards, card) ==
    LET ranks == RankNumbers(Ranked(cards))
        lo    == Min(ranks)
        hi    == Max(ranks)
        rank  == IndexOf(RANK_ORDER, card.rank)
    IN  IF Len(Ranked(cards)) = 1 THEN Abs(rank - lo) <= 2
        ELSE \/ hi - lo = 1 /\ rank \in {lo - 1, hi + 1}
             \/ hi - lo = 2 /\ rank = lo + 1

\* the causes of rejection as the rules list them
Rejected(state, card, source, target) ==
    \/ ~(source.kind = "play" /\ SlotAt(state, source.row, source.col) = card)
    \/ target.kind \notin {"narrative", "forgotten"}
    \/ /\ target.kind = "narrative"
       /\ card.rank # "Joker"
       /\ LET cards == state.narrativeDeck[target.idx + 1] IN
          \/ \E i \in 1..Len(cards) : cards[i].rank # "Joker" /\ cards[i].suit # card.suit
          \/ \E i \in 1..Len(cards) : cards[i].rank = card.rank
          \/ Len(Ranked(cards)) \in {1, 2} /\ ~InWindow(cards, card)

\* C5: a rejected move leaves the game state unchanged.  For every card,
\* source and target for which handleDrop rejects (the card is not at the
\* slot the source names, suit mismatch, duplicate rank, rank-fit failure,
\* or a target that is neither a narrative sequence nor the forgotten pile)
\* the state handleDrop returns equals the state it was given in every field.
C5_RejectedDropUnchanged ==
    \A card \in DropCards(gameState), source \in DropSources, target \in DropTargets :
        Rejected(gameState, card, source, target)
            => handleDrop(gameState, [card |-> card, source |-> source], target) = gameState

\* a drop has just been rejected for its rank while a back-row card could be promoted
C5_Witness ==
    /\ gameState.gameStatus = "playing"
    /\ lastOp.op = "handleDrop"
    /\ lastOp.branch = "SequenceMismatch"
    /\ \E c \in 0..(NumCols - 1) : SlotAt(gameState, 1, c) # NULL

\* C6: sequence admission window.  A ranked card of the sequence's suit
\* dropped on a sequence holding one ranked card r is accepted iff its rank
\* is within 2 of r; dropped on a sequence holding two ranked cards
\* min < max it is accepted iff (max - min = 1 and its rank is min-1 or
\* max+1) or (max - min = 2 and its rank is min+1).
C6_AdmissionWindow ==
    [][(/\ gameState.gameStatus = "playing"
        /\ lastOp'.op = "handleDrop"
        /\ lastOp'.idx >= 0
        /\ lastOp'.card.rank # "Joker"
        /\ LET cards == gameState.narrativeDeck[lastOp'.idx + 1] IN
           /\ Len(Ranked(cards)) \in {1, 2}
           /\ \A i \in 1..Len(cards) : cards[i].rank # "Joker" => cards[i].suit = lastOp'.card.suit)
         => ((gameState' # gameState)
               <=> InWindow(gameState.narrativeDeck[lastOp'.idx + 1], lastOp'.card))]_vars

\* the 4 of spades has just been refused by the sequence [5, 7] of spades
C6_Witness ==
    /\ gameState.narrativeDeck[1] = <<MkCard("5", "spades"), MkCard("7", "spades")>>
    /\ lastOp.op = "handleDrop"
    /\ lastOp.idx = 0
    /\ lastOp.card = MkCard("4", "spades")
    /\ SlotAt(gameState, 0, 0) = MkCard("4", "spades")

\* the resolution rule as the rules state it, for the 3 cards of a sequence
Resolves(cards) ==
    LET ranks == RankNumbers(Ranked(cards))
        wilds == Len(cards) - Len(Ranked(cards))
    IN  \/ wilds = 0 /\ Max(ranks) - Min(ranks) = 2
        \/ wilds = 1 /\ Max(ranks) - Min(ranks) <= 2
        \/ wilds = 2 /\ Len(Ranked(cards)) = 1

\* the 3-card sequences processNarrativeSet is evaluated on
SeqTripleCards ==
    {MkCard("3", "spades"), MkCard("5", "spades"), MkCard("6", "spades"), MkCard("7", "spades"),
     MkCard("9", "spades"), Joker1, Joker2}

SeqTriples ==
    {<<x, y, z>> : x \in SeqTripleCards, y \in SeqTripleCards, z \in SeqTripleCards}

\* C7: sequence resolution rule.  A sequence brought to 3 cards resolves iff
\* (no Wild and max rank - min rank = 2) or (one Wild and the two ranked
\* cards differ by at most 2) or (two Wilds and one ranked card); on
\* resolution all 3 cards are appended, in the same step, to the memory pile
\* of the ranked cards' suit and the sequence is left empty; otherwise the
\* sequence and the memory piles are left as they are.  Stated of every drop
\* that brings a sequence to 3 cards, and of processNarrativeSet on every
\* 3-card sequence of SeqTriples placed in the first state of a run.
C7_ResolutionRule ==
    /\ [][(/\ lastOp'.op = "handleDrop"
           /\ lastOp'.idx >= 0
           /\ gameState' # gameState
           /\ Len(gameState.narrativeDeck[lastOp'.idx + 1]) = 2)
            => LET k     == lastOp'.idx + 1
                   three == gameState.narrativeDeck[k] \o <<lastOp'.card>>
                   suit  == Ranked(three)[1].suit
               IN  IF Resolves(three)
                   THEN /\ gameState'.narrativeDeck[k] = <<>>
                        /\ gameState'.memoryPiles[suit].cards
                             = gameState.memoryPiles[suit].cards \o three
                   ELSE /\ gameState'.narrativeDeck[k] = three
                        /\ gameState'.memoryPiles = gameState.memoryPiles]_vars
    /\ [](lastOp.op = "setupGame" =>
            \A three \in SeqTriples :
               (\E i \in 1..3, j \in 1..3 : i # j /\ three[i] = three[j])
               \/ LET given == [gameState EXCEPT !.narrativeDeck[1] = three]
                      after == processNarrativeSet(given, 0).state
                  IN  IF Resolves(three)
                      THEN /\ after.narrativeDeck[1] = <<>>
                           /\ after.memoryPiles["spades"].cards
                                = given.memoryPiles["spades"].cards \o three
                      ELSE after = given)

\* a drop has just resolved a sequence holding one Wild
C7_Witness ==
    /\ lastOp.op = "handleDrop"
    /\ lastOp.branch = "narrative"
    /\ gameState.narrativeDeck[1] = <<>>
    /\ Len(gameState.memoryPiles["spades"].cards) = 3
    /\ Len(Ranked(gameState.memoryPiles["spades"].cards)) = 2

\* C8: win detection.  The status is never 'won' while some suit has
\* completedSets below its goal; and every step that completes a set (a
\* resolving drop or the Queen's 'completeSet') and leaves every suit at or
\* above its goal with no suit above it returns a state whose status is 'won'.
C8_WinDetection ==
    /\ [](gameState.gameStatus = "won" => AllGoalsMet(gameState))
    /\ [][(/\ \E s \in GoalSuits(gameState) :
                 CompletedSets(gameState', s) > CompletedSets(gameState, s)
           /\ AllGoalsMet(gameState')
           /\ ~Overrun(gameState'))
            => gameState'.gameStatus = "won"]_vars

\* the Queen's 'completeSet' has just met the last goal
C8_Witness ==
    /\ lastOp.op = "handleQueenAction"
    /\ lastOp.branch = "completeSet"
    /\ gameState.gameStatus = "won"
    /\ AllGoalsMet(gameState)

\* the exhaustion condition as the rules state it
Exhausted(state) ==
    /\ state.gameStatus = "playing"
    /\ state.mainDeck = <<>>
    /\ \A r \in 0..1, c \in 0..3 : SlotAt(state, r, c) = NULL
    /\ ~AllGoalsMet(state)

\* C9: exhaustion loss.  From a state that is 'playing' with the reserve
\* empty, all 8 play-row slots empty and the win condition unmet, the next
\* step sets the status to 'lost'; and every step that takes the status from
\* 'playing' to 'lost' without an overrun is the exhaustion effect taken
\* from such a state.
C9_ExhaustionLoss ==
    /\ [][Exhausted(gameState) => gameState'.gameStatus = "lost"]_vars
    /\ [][(/\ gameState.gameStatus = "playing"
           /\ gameState'.gameStatus = "lost"
           /\ ~Overrun(gameState'))
            => Exhausted(gameState) /\ lastOp'.op = "exhaustionEffect"]_vars

\* the exhaustion effect has just ended the game
C9_Witness ==
    /\ lastOp.op = "exhaustionEffect"
    /\ gameState.gameStatus = "lost"
    /\ ~Overrun(gameState)
    /\ gameState.mainDeck = <<>>

\* the royals with a pending decision
PendingRoyals ==
    ({kingAction, queenAction, jackAction.card}) \ {NULL}

\* C10, spent on landing: a royal whose decision is pending is already out of the
\* play rows and in the forgotten pile, and after a cancelled decision it is
\* in the forgotten pile and not in a play slot.
C10_SpentOnLanding ==
    /\ \A royal \in PendingRoyals :
          InForgotten(gameState, royal) /\ ~InPlayRows(gameState, royal)
    /\ (lastOp.op = "cancel" /\ lastOp.branch \in {"king", "queen", "jack"})
          => InForgotten(gameState, lastOp.card) /\ ~InPlayRows(gameState, lastOp.card)

\* C10, spent on commit: a King, Queen or Jack whose decision is pending is still in
\* its play slot and not in the forgotten pile; cancelling the decision
\* leaves the game state unchanged with the royal in its slot; the royal is
\* moved from the play rows to the forgotten pile by the step that commits a
\* choice (handleKingAction, handleQueenAction, handleJackAction
\* 'discardJack', handleResurrectSelect).
C10_SpentOnCommit ==
    /\ [](\A royal \in PendingRoyals :
             InPlayRows(gameState, royal) /\ ~InForgotten(gameState, royal))
    /\ [][(lastOp'.op = "cancel" /\ lastOp' # lastOp)
            => /\ gameState' = gameState
               /\ InPlayRows(gameState', lastOp'.card)
               /\ ~InForgotten(gameState', lastOp'.card)]_vars
    /\ [][(/\ lastOp' # lastOp
           /\ \/ lastOp'.op \in {"handleKingAction", "handleQueenAction"}
              \/ lastOp'.op = "handleJackAction" /\ lastOp'.branch = "discardJack")
            => /\ InPlayRows(gameState, lastOp'.card)
               /\ InForgotten(gameState', lastOp'.card)
               /\ ~InPlayRows(gameState', lastOp'.card)]_vars
    /\ [][(lastOp'.op = "handleResurrectSelect" /\ lastOp' # lastOp)
            => /\ InPlayRows(gameState, jackAction.card)
               /\ InForgotten(gameState', jackAction.card)
               /\ ~InPlayRows(gameState', jackAction.card)]_vars

\* a King's decision has just been cancelled and the King is in its slot
C10_Witness ==
    /\ lastOp.op = "cancel"
    /\ lastOp.branch = "king"
    /\ InPlayRows(gameState, lastOp.card)
    /\ ~InForgotten(gameState, lastOp.card)
    /\ kingAction = NULL

\* the power decisions that are pending
PendingDecisions ==
    {d \in {"king", "queen", "jack", "discard"} :
        \/ d = "king" /\ kingAction # NULL
        \/ d = "queen" /\ queenAction # NULL
        \/ d = "jack" /\ (jackAction # NoJack \/ showResurrectDialog)
        \/ d = "discard" /\ (isDiscardMode \/ confirmDiscard # NoIndex)}

\* C11: at most one power decision is pending at a time.  In every reachable
\* state at most one of kingAction, queenAction, jackAction (with its
\* resurrect selection) and the King's discard-select mode (isDiscardMode /
\* confirmDiscard) is set.
C11_OnePending == Cardinality(PendingDecisions) <= 1

\* C12: while a power decision is pending, a handleDrop whose target is a
\* narrative sequence leaves the game state unchanged.
C12_PendingRejectsDrop ==
    [][(/\ PendingDecisions # {}
        /\ lastOp'.op = "handleDrop"
        /\ lastOp' # lastOp
        /\ lastOp'.idx >= 0)
         => gameState' = gameState]_vars

\* C13: King scenario.  The step that commits a King choice leaves the King
\* in the forgotten pile and out of the play rows and changes no narrative
\* sequence ('just discard King' ends there; 'discard a narrative pile'
\* turns discard-select mode on); the step that confirms the discard of
\* sequence k appends every card of sequence k to the forgotten pile, leaves
\* sequence k empty and leaves the other sequences as they were.
C13_KingScenario ==
    /\ [][(kingAction # NULL /\ lastOp'.op = "handleKingAction")
            => /\ InForgotten(gameState', kingAction)
               /\ ~InPlayRows(gameState', kingAction)
               /\ gameState'.narrativeDeck = gameState.narrativeDeck
               /\ isDiscardMode' = (isDiscardMode \/ lastOp'.branch = "discardNarrative")]_vars
    /\ [][(/\ confirmDiscard # NoIndex
           /\ lastOp'.op = "handleConfirmDiscard"
           /\ lastOp'.branch = "confirmed")
            => LET k == confirmDiscard + 1 IN
               /\ gameState'.narrativeDeck[k] = <<>>
               /\ gameState'.forgottenPile
                    = gameState.forgottenPile \o gameState.narrativeDeck[k]
               /\ \A j \in 1..NumNarrative :
                     j # k => gameState'.narrativeDeck[j] = gameState.narrativeDeck[j]
               /\ ~isDiscardMode']_vars

\* a pile of two cards has just been discarded with a King
C13_Witness ==
    /\ lastOp.op = "handleConfirmDiscard"
    /\ lastOp.branch = "confirmed"
    /\ gameState.narrativeDeck[lastOp.idx + 1] = <<>>
    /\ Len(gameState.forgottenPile) >= 3
    /\ LET n == Len(gameState.forgottenPile) IN
       /\ gameState.forgottenPile[n - 2].rank = "K"
       /\ gameState.forgottenPile[n - 1].rank \notin {"K", "Q", "J"}
       /\ gameState.forgottenPile[n].rank \notin {"K", "Q", "J"}

\* C14: Queen effect.  The step that commits 'completeSet' with the Queen of
\* suit s appends the Queen to the forgotten pile and takes it out of the
\* play rows, adds exactly 1 to completedWithQueens of s, adds no card to any
\* memory pile and changes no other suit's counter; the status it returns is
\* 'lost' if s is now above its goal (so a Queen on a suit already at its
\* goal loses at once), else 'won' if every goal is met, else 'playing'.
\* The step that commits 'discardQueen' appends the Queen to the forgotten
\* pile, takes it out of the play rows and changes no memory pile or status.
C14_QueenEffect ==
    [][(queenAction # NULL /\ lastOp'.op = "handleQueenAction")
         => LET s == queenAction.suit IN
            /\ gameState'.forgottenPile = Append(gameState.forgottenPile, queenAction)
            /\ ~InPlayRows(gameState', queenAction)
            /\ \A u \in GoalSuits(gameState) :
                  gameState'.memoryPiles[u].cards = gameState.memoryPiles[u].cards
            /\ IF lastOp'.branch = "completeSet"
               THEN /\ gameState'.memoryPiles[s].completedWithQueens
                         = gameState.memoryPiles[s].completedWithQueens + 1
                    /\ \A u \in GoalSuits(gameState) \ {s} :
                          gameState'.memoryPiles[u] = gameState.memoryPiles[u]
                    /\ gameState'.gameStatus
                         = IF CompletedSets(gameState', s) > GoalCount(gameState', s) THEN "lost"
                           ELSE IF AllGoalsMet(gameState') THEN "won"
                           ELSE "playing"
                    /\ CompletedSets(gameState, s) >= GoalCount(gameState, s)
                          => gameState'.gameStatus = "lost"
               ELSE /\ gameState'.memoryPiles = gameState.memoryPiles
                    /\ gameState'.gameStatus = gameState.gameStatus]_vars

\* a Queen has just been used on a suit that was already at its goal
C14_Witness ==
    /\ lastOp.op = "handleQueenAction"
    /\ lastOp.branch = "completeSet"
    /\ gameState.gameStatus = "lost"
    /\ gameState.memoryPiles[lastOp.card.suit].completedWithQueens = 1
    /\ CompletedSets(gameState, lastOp.card.suit) = GoalCount(gameState, lastOp.card.suit) + 1

\* C15: Jack resurrection.  The step that resurrects card c of the forgotten
\* pile with the Jack of play slot p removes c from the forgotten pile and
\* puts it in slot p, leaves the Jack at the end of the forgotten pile and in
\* no play slot, and changes nothing else (the other slots, the narrative
\* sequences, the memory piles, the reserve, the goals and the status).
C15_JackResurrection ==
    [][(/\ showResurrectDialog
        /\ jackAction # NoJack
        /\ lastOp'.op = "handleResurrectSelect")
         => LET c    == lastOp'.card
                jack == jackAction.card
            IN  /\ InForgotten(gameState, c)
                /\ gameState'.forgottenPile
                     = Append(SelectSeq(gameState.forgottenPile, LAMBDA x : x # c), jack)
                /\ ~InPlayRows(gameState', jack)
                /\ \A r \in 0..(NumRows - 1), col \in 0..(NumCols - 1) :
                      SlotAt(gameState', r, col)
                        = IF r = jackAction.row /\ col = jackAction.col THEN c
                          ELSE SlotAt(gameState, r, col)
                /\ gameState'.narrativeDeck = gameState.narrativeDeck
                /\ gameState'.memoryPiles = gameState.memoryPiles
                /\ gameState'.mainDeck = gameState.mainDeck
                /\ gameState'.goals = gameState.goals
                /\ gameState'.gameStatus = gameState.gameStatus]_vars

\* a card has just been resurrected from a forgotten pile of several cards
C15_Witness ==
    /\ lastOp.op = "handleResurrectSelect"
    /\ Len(gameState.forgottenPile) >= 2
    /\ gameState.forgottenPile[Len(gameState.forgottenPile)].rank = "J"
    /\ SlotAt(gameState, 0, lastOp.idx) = lastOp.card
    /\ ~InForgotten(gameState, lastOp.card)
    /\ jackAction = NoJack

\* C16: 'resurrect' chosen with a Jack while the forgotten pile is empty is
\* rejected: the step leaves the game state unchanged (no card is placed in
\* any slot), clears the pending Jack decision and opens no selection.
C16_NoResurrectionTargets ==
    [][(/\ jackAction # NoJack
        /\ ~showResurrectDialog
        /\ gameState.forgottenPile = <<>>
        /\ lastOp'.op = "handleJackAction"
        /\ lastOp'.branch # "discardJack")
         => /\ gameState' = gameState
            /\ jackAction' = NoJack
            /\ ~showResurrectDialog']_vars

\* 'resurrect' has just been refused and the Jack is still in its slot
C16_Witness ==
    /\ lastOp.op = "handleJackAction"
    /\ lastOp.branch = "NoResurrectionTargets"
    /\ gameState.forgottenPile = <<>>
    /\ jackAction = NoJack
    /\ SlotAt(gameState, 0, lastOp.idx) = lastOp.card

IsRoyal(card) == card.rank \in {"K", "Q", "J"}

PlaySlots == (0..(NumRows - 1)) \X (0..(NumCols - 1))

FrontCols(state) == {c \in 0..(NumCols - 1) : SlotAt(state, 0, c) # NULL}

C19_ForgottenAccepts ==
    /\ [](gameState.gameStatus = "playing"
            => \A p \in PlaySlots :
                  SlotAt(gameState, p[1], p[2]) # NULL
                    => LET card  == SlotAt(gameState, p[1], p[2])
                           after == handleDrop(gameState,
                                               [card |-> card,
                                                source |-> PlaySource(p[1], p[2])],
                                               ForgottenTarget)
                       IN  /\ after.forgottenPile = Append(gameState.forgottenPile, card)
                           /\ \A q \in PlaySlots :
                                 SlotAt(after, q[1], q[2])
                                   = IF q = p THEN NULL ELSE SlotAt(gameState, q[1], q[2])
                           /\ after.narrativeDeck = gameState.narrativeDeck
                           /\ after.memoryPiles = gameState.memoryPiles
                           /\ after.mainDeck = gameState.mainDeck)
    /\ [][(/\ gameState.gameStatus = "playing"
           /\ lastOp'.op = "handleDrop"
           /\ lastOp'.idx = NoIndex
           /\ lastOp'.card # NULL
           /\ lastOp' # lastOp)
            => /\ gameState'.forgottenPile = Append(gameState.forgottenPile, lastOp'.card)
               /\ ~InPlayRows(gameState', lastOp'.card)
               /\ gameState'.narrativeDeck = gameState.narrativeDeck
               /\ gameState'.memoryPiles = gameState.memoryPiles]_vars

\* a Wild has just been dropped on the forgotten pile, with royals in the rows
C19_Witness ==
    /\ lastOp.op = "handleDrop"
    /\ lastOp.branch = "forgotten"
    /\ lastOp.card.rank = "Joker"
    /\ Len(gameState.forgottenPile) > 0
    /\ gameState.forgottenPile[Len(gameState.forgottenPile)] = lastOp.card
    /\ \E p \in PlaySlots : IsRoyal(SlotAt(gameState, p[1], p[2]))

\* C20: suit rule.  In every reachable state the ranked cards of one
\* narrative sequence share one suit; a drop that admits a ranked card to a
\* sequence holding ranked cards carries a card of their suit; a Wild
\* dropped on a sequence while playing is admitted whatever the sequence's
\* suit; and a ranked card dropped on a sequence holding only Wilds is
\* admitted whatever its suit.
C20_SuitRule ==
    /\ [](\A k \in 1..NumNarrative :
             \A i, j \in 1..Len(Ranked(gameState.narrativeDeck[k])) :
                Ranked(gameState.narrativeDeck[k])[i].suit
                  = Ranked(gameState.narrativeDeck[k])[j].suit)
    /\ [][(/\ lastOp'.op = "handleDrop"
           /\ lastOp'.idx >= 0
           /\ gameState' # gameState
           /\ lastOp'.card.rank # "Joker"
           /\ Ranked(gameState.narrativeDeck[lastOp'.idx + 1]) # <<>>)
            => lastOp'.card.suit = Ranked(gameState.narrativeDeck[lastOp'.idx + 1])[1].suit]_vars
    /\ [][(/\ gameState.gameStatus = "playing"
           /\ lastOp'.op = "handleDrop"
           /\ lastOp' # lastOp
           /\ lastOp'.idx >= 0
           /\ \/ lastOp'.card.rank = "Joker"
              \/ /\ gameState.narrativeDeck[lastOp'.idx + 1] # <<>>
                 /\ Ranked(gameState.narrativeDeck[lastOp'.idx + 1]) = <<>>)
            => gameState' # gameState]_vars

\* a ranked card has just been admitted to a sequence that held only a Wild
C20_Witness ==
    /\ lastOp.op = "handleDrop"
    /\ lastOp.branch = "narrative"
    /\ lastOp.idx >= 0
    /\ lastOp.card.rank # "Joker"
    /\ Len(gameState.narrativeDeck[lastOp.idx + 1]) = 2
    /\ gameState.narrativeDeck[lastOp.idx + 1][1].rank = "Joker"
    /\ gameState.narrativeDeck[lastOp.idx + 1][2] = lastOp.card

\* the ranked cards and the Wilds of the full deck
NonRoyals == {c \in SeqToSet(createDeck) : c.rank \notin {"K", "Q", "J"}}

\* C21: an empty narrative sequence is a legal target.  While playing,
\* handleDrop given a non-royal card (any suit, any rank, a Wild included)
\* from its play slot and an empty narrative sequence as target returns a
\* state in which that sequence holds exactly that card.  Stated of every
\* empty sequence and non-royal play card of every reachable state, of every
\* non-royal card of the full deck placed in slot (0,0) of a dealt state
\* whose sequence 0 is emptied, and of every drop the board makes on an
\* empty sequence.
C21_EmptySequenceAccepts ==
    /\ [](gameState.gameStatus = "playing"
            => \A k \in 0..(NumNarrative - 1), p \in PlaySlots :
                  (/\ gameState.narrativeDeck[k + 1] = <<>>
                   /\ SlotAt(gameState, p[1], p[2]) # NULL
                   /\ ~IsRoyal(SlotAt(gameState, p[1], p[2])))
                    => handleDrop(gameState,
                                  [card |-> SlotAt(gameState, p[1], p[2]),
                                   source |-> PlaySource(p[1], p[2])],
                                  NarrativeTarget(k)).narrativeDeck[k + 1]
                         = <<SlotAt(gameState, p[1], p[2])>>)
    /\ [](lastOp.op = "setupGame"
            => \A c \in NonRoyals :
                  LET given == [gameState EXCEPT !.narrativeDeck[1] = <<>>,
                                                 !.playDeck[1][1] = c]
                  IN  handleDrop(given, [card |-> c, source |-> PlaySource(0, 0)],
                                 NarrativeTarget(0)).narrativeDeck[1] = <<c>>)
    /\ [][(/\ gameState.gameStatus = "playing"
           /\ lastOp'.op = "handleDrop"
           /\ lastOp' # lastOp
           /\ lastOp'.idx >= 0
           /\ gameState.narrativeDeck[lastOp'.idx + 1] = <<>>)
            => gameState'.narrativeDeck[lastOp'.idx + 1] = <<lastOp'.card>>]_vars

\* a ranked card has just been dropped on a sequence that a King had emptied
C21_Witness ==
    /\ lastOp.op = "handleDrop"
    /\ lastOp.branch = "narrative"
    /\ lastOp.idx >= 0
    /\ lastOp.card.rank # "Joker"
    /\ gameState.narrativeDeck[lastOp.idx + 1] = <<lastOp.card>>
    /\ \E i \in 1..Len(gameState.forgottenPile) : gameState.forgottenPile[i].rank = "K"
    /\ \E k \in 1..NumNarrative :
          /\ Ranked(gameState.narrativeDeck[k]) # <<>>
          /\ Ranked(gameState.narrativeDeck[k])[1].suit # lastOp.card.suit

\* the column of the front row that holds the card
FrontColOf(state, card) == CHOOSE c \in 0..(NumCols - 1) : SlotAt(state, 0, c) = card

\* C22: cascade determinism.  A step that plays the front-row card of
\* column c onto a narrative sequence leaves in front[c] the card that was
\* in back[c], in back[c] the card that was on top of the reserve (nothing
\* if the reserve was empty), the reserve without its top card, and every
\* play slot of the other columns as it was.
C22_CascadeDeterminism ==
    [][(/\ lastOp'.op = "handleDrop"
        /\ lastOp'.branch = "narrative"
        /\ lastOp' # lastOp)
         => LET c == FrontColOf(gameState, lastOp'.card)
                reserve == gameState.mainDeck
            IN  /\ SlotAt(gameState, 0, c) = lastOp'.card
                /\ SlotAt(gameState', 0, c) = SlotAt(gameState, 1, c)
                /\ SlotAt(gameState', 1, c)
                     = (IF reserve = <<>> THEN NULL ELSE reserve[Len(reserve)])
                /\ gameState'.mainDeck
                     = (IF reserve = <<>> THEN <<>> ELSE SubSeq(reserve, 1, Len(reserve) - 1))
                /\ \A q \in PlaySlots :
                      q[2] # c => SlotAt(gameState', q[1], q[2]) = SlotAt(gameState, q[1], q[2])]_vars

\* only plays so far, the last one with the reserve empty: a back card was
\* promoted and the back slot under it is empty
C22_Witness ==
    /\ lastOp.op = "handleDrop"
    /\ lastOp.branch = "narrative"
    /\ gameState.forgottenPile = <<>>
    /\ gameState.mainDeck = <<>>
    /\ \E c \in 0..(NumCols - 1) :
          SlotAt(gameState, 0, c) # NULL /\ SlotAt(gameState, 1, c) = NULL

\* the step confirms the King's discard of sequence k
KingEmpties(k) ==
    /\ lastOp'.op = "handleConfirmDiscard"
    /\ lastOp'.branch = "confirmed"
    /\ lastOp'.idx = k
    /\ lastOp' # lastOp
    /\ gameState.narrativeDeck[k + 1] # <<>>

\* the step is a drop whose card completes a set in sequence k
DropResolves(k) ==
    /\ lastOp'.op = "handleDrop"
    /\ lastOp'.branch = "narrative"
    /\ lastOp'.idx = k
    /\ lastOp' # lastOp
    /\ Len(gameState.narrativeDeck[k + 1]) = 2
    /\ Resolves(gameState.narrativeDeck[k + 1] \o <<lastOp'.card>>)

\* the sequence a refill from the reserve leaves
RefilledFrom(reserve) == IF reserve = <<>> THEN <<>> ELSE <<reserve[Len(reserve)]>>

\* the 3-card sets processNarrativeSet is evaluated on in a dealt state
DealtTriples ==
    {three \in {<<x, y, z>> : x \in SeqToSet(SubDeck), y \in SeqToSet(SubDeck),
                              z \in SeqToSet(SubDeck)} :
        /\ \A i \in 1..3 : three[i].suit \in {"spades", "joker"} /\ ~IsRoyal(three[i])
        /\ three[1] # three[2] /\ three[1] # three[3] /\ three[2] # three[3]
        /\ Ranked(three) # <<>>
        /\ Resolves(three)}

\* C23, narrative refill: the step that empties a narrative sequence (a set
\* resolution or the King's pile discard) leaves in it one card taken from
\* the top of the reserve whenever the reserve is non-empty, and leaves it
\* empty only when the reserve is empty.
C23_NarrativeRefill ==
    [][\A k \in 0..(NumNarrative - 1) :
          /\ KingEmpties(k)
                => gameState'.narrativeDeck[k + 1] = RefilledFrom(gameState.mainDeck)
          /\ DropResolves(k)
                => gameState'.narrativeDeck[k + 1] = RefilledFrom(Pop(gameState.mainDeck))]_vars

\* C23, emptied sequences stay empty: the step that empties a narrative
\* sequence leaves it empty whatever the reserve holds and takes no card
\* from the reserve for it.  The King's pile discard leaves the reserve and
\* the play rows as they were; a resolving drop takes from the reserve only
\* the card its column cascade puts in the back row; processNarrativeSet
\* itself leaves the reserve as it was.  (The sequence is filled again only
\* by a later drop.)
C23_EmptiedStaysEmpty ==
    /\ [][\A k \in 0..(NumNarrative - 1) :
             /\ KingEmpties(k)
                   => /\ gameState'.narrativeDeck[k + 1] = <<>>
                      /\ gameState'.mainDeck = gameState.mainDeck
                      /\ gameState'.playDeck = gameState.playDeck
             /\ DropResolves(k)
                   => /\ gameState'.narrativeDeck[k + 1] = <<>>
                      /\ gameState'.mainDeck = Pop(gameState.mainDeck)
                      /\ \A c \in SeqToSet(gameState.mainDeck) :
                            \A j \in 1..NumNarrative :
                               c \notin SeqToSet(gameState'.narrativeDeck[j])]_vars
    /\ [](lastOp.op = "setupGame"
            => /\ gameState.mainDeck # <<>>
               /\ \A three \in DealtTriples :
                     LET given == [gameState EXCEPT !.narrativeDeck[1] = three]
                         after == processNarrativeSet(given, 0).state
                     IN  after.narrativeDeck[1] = <<>> /\ after.mainDeck = given.mainDeck
               /\ \A k \in 0..(NumNarrative - 1) :
                     LET after == handleConfirmDiscard(gameState, k)
                     IN  after.narrativeDeck[k + 1] = <<>> /\ after.mainDeck = gameState.mainDeck)

\* a King's pile discard has just been confirmed while the reserve holds cards,
\* after a set was resolved: both sequences are empty
C23_Witness ==
    /\ lastOp.op = "handleConfirmDiscard"
    /\ lastOp.branch = "confirmed"
    /\ gameState.narrativeDeck[lastOp.idx + 1] = <<>>
    /\ gameState.mainDeck # <<>>
    /\ Len(gameState.forgottenPile) >= 2
    /\ \E s \in GoalSuits(gameState) : Len(gameState.memoryPiles[s].cards) = CARDS_PER_SET
    /\ \E k \in 1..NumNarrative :
          k # lastOp.idx + 1 /\ gameState.narrativeDeck[k] = <<>>

\* the back row holds a card
BackRowHolds(state) == \E c \in 0..(NumCols - 1) : SlotAt(state, 1, c) # NULL

\* the play rows after the back row is promoted and a fresh back row is drawn
Promoted(state) ==
    <<state.playDeck[2],
      [j \in 1..NumCols |->
          IF j <= Len(state.mainDeck) THEN state.mainDeck[Len(state.mainDeck) + 1 - j]
          ELSE NULL]>>

\* C24: discard cascade discipline.  A discard leaves the slot of the
\* discarded front-row card empty; and every time the front row of a playing
\* game is entirely empty while the back row or the reserve holds a card,
\* the promotion is due and the step that follows promotes the back row as a
\* whole and draws a fresh back row of up to 4 cards from the reserve (empty
\* slots where the reserve runs out), the reserve empty and the back row
\* holding cards included.
C24_DiscardCascade ==
    /\ [][(/\ lastOp'.op = "handleDrop"
           /\ lastOp'.branch = "forgotten"
           /\ lastOp' # lastOp)
            => LET c == FrontColOf(gameState, lastOp'.card)
               IN  /\ SlotAt(gameState', 0, c) = NULL
                   /\ SlotAt(gameState', 1, c) = SlotAt(gameState, 1, c)]_vars
    /\ []((/\ gameState.gameStatus = "playing"
           /\ topRowEmpty(gameState)
           /\ (BackRowHolds(gameState) \/ gameState.mainDeck # <<>>))
            => RefreshDue(gameState))
    /\ [][(/\ gameState.gameStatus = "playing"
           /\ topRowEmpty(gameState)
           /\ (BackRowHolds(gameState) \/ gameState.mainDeck # <<>>))
            => /\ gameState'.playDeck = Promoted(gameState)
               /\ gameState'.mainDeck
                    = SubSeq(gameState.mainDeck, 1,
                             IF Len(gameState.mainDeck) > NumCols
                             THEN Len(gameState.mainDeck) - NumCols ELSE 0)]_vars

\* C25: no partial application.  Every state an operation produces has its
\* cascade and its win/loss evaluation applied: no reachable state is
\* 'playing' with every goal met or a goal overrun, none is 'playing' with
\* the front row entirely empty while the back row or the reserve holds
\* cards, and none is 'playing' while satisfying the exhaustion-loss
\* condition.
C25_NoPartialApplication ==
    /\ gameState.gameStatus = "playing" => ~AllGoalsMet(gameState) /\ ~Overrun(gameState)
    /\ ~(/\ gameState.gameStatus = "playing"
         /\ topRowEmpty(gameState)
         /\ (BackRowHolds(gameState) \/ gameState.mainDeck # <<>>))
    /\ ~Exhausted(gameState)

\* the play slots holding a card of the rank
SlotsOfRank(state, rank) ==
    {p \in PlaySlots : SlotAt(state, p[1], p[2]) # NULL /\ SlotAt(state, p[1], p[2]).rank = rank}

C27_CancelKeepsState ==
    /\ [][(/\ lastOp' # lastOp
           /\ \/ lastOp'.op = "cancel"
              \/ lastOp'.op = "handleConfirmDiscard" /\ lastOp'.branch = "cancelled")
            => gameState' = gameState]_vars
    /\ [][(lastOp' # lastOp /\ lastOp'.op = "handleConfirmDiscard"
           /\ lastOp'.branch = "cancelled")
            => /\ confirmDiscard' = NoIndex /\ ~isDiscardMode'
               /\ <<kingAction', queenAction', jackAction'>>
                    = <<kingAction, queenAction, jackAction>>]_vars
    /\ [][(lastOp' # lastOp /\ lastOp'.op = "cancel")
            => /\ lastOp'.branch = "king" => kingAction' = NULL
               /\ lastOp'.branch = "queen" => queenAction' = NULL
               /\ lastOp'.branch = "jack" => jackAction' = NoJack
               /\ lastOp'.branch = "resurrect" => ~showResurrectDialog'
               /\ <<isDiscardMode', confirmDiscard'>> = <<isDiscardMode, confirmDiscard>>]_vars

\* the King's discard-select has just been cancelled: the King is in the
\* forgotten pile and the selected sequence still holds its cards
C27_Witness ==
    /\ lastOp.op = "handleConfirmDiscard"
    /\ lastOp.branch = "cancelled"
    /\ gameState.narrativeDeck[lastOp.idx + 1] # <<>>
    /\ \E i \in 1..Len(gameState.forgottenPile) : gameState.forgottenPile[i].rank = "K"
    /\ ~isDiscardMode
    /\ confirmDiscard = NoIndex

InNarrative(state, card) ==
    \E k \in 1..Len(state.narrativeDeck) : card \in SeqToSet(state.narrativeDeck[k])

\* C28: the reserve shrinks monotonically and is the sole refill source.
\* Every step leaves as reserve a prefix of the reserve it found (no card is
\* added, none reordered, the length never grows); the cards a step takes
\* off the reserve are taken from its top and land in the back row (one
\* card by a column cascade, up to 4 in drawing order by the refresh); a
\* card that enters the play rows comes from the top of the reserve, the
\* one exception being the card a Jack resurrects from the forgotten pile;
\* and no card of the reserve enters a narrative sequence.
C28_ReserveMonotone ==
    [][LET old == gameState.mainDeck
           new == gameState'.mainDeck
           n   == Len(old) - Len(new)
           taken == {old[i] : i \in (Len(new) + 1)..Len(old)}
       IN  /\ Len(new) <= Len(old)
           /\ new = SubSeq(old, 1, Len(new))
           /\ n > 1 => lastOp'.op = "refreshEffect" /\ n <= NumCols
           /\ n = 1 => \E c \in 0..(NumCols - 1) : SlotAt(gameState', 1, c) = old[Len(old)]
           /\ \A i \in 1..n : SlotAt(gameState', 1, i - 1) = old[Len(old) + 1 - i]
                              \/ (n = 1 /\ lastOp'.op # "refreshEffect")
           /\ \A q \in PlaySlots :
                 LET card == SlotAt(gameState', q[1], q[2]) IN
                 (card # NULL /\ ~InPlayRows(gameState, card))
                   => \/ card \in taken
                      \/ /\ lastOp'.op = "handleResurrectSelect"
                         /\ InForgotten(gameState, card)
           /\ \A card \in SeqToSet(old) : ~InNarrative(gameState', card)]_vars

\* the refresh has just drawn a whole back row from a reserve that a column
\* cascade had drawn from before
C28_Witness ==
    /\ lastOp.op = "refreshEffect"
    /\ \A q \in PlaySlots : SlotAt(gameState, q[1], q[2]) # NULL
    /\ Len(gameState.mainDeck) >= 1
    /\ \E k \in 1..NumNarrative : Len(gameState.narrativeDeck[k]) >= 2

\* C29: goals are read-only after setup.  No step (operation or effect)
\* changes the goals: the suits, their order and every goal's count stay as
\* setupGame returned them, one goal per suit with a count from 1 to 3.
C29_GoalsReadOnly ==
    /\ [][gameState'.goals = gameState.goals]_vars
    /\ [](/\ Len(gameState.goals) = Cardinality(GoalSuits(gameState))
          /\ \A i \in 1..Len(gameState.goals) : gameState.goals[i].count \in 1..3)

\* sets have been completed by a resolution and by a Queen, and the game is decided
C29_Witness ==
    /\ gameState.gameStatus # "playing"
    /\ \E s \in GoalSuits(gameState) : gameState.memoryPiles[s].completedWithQueens > 0
    /\ \E s \in GoalSuits(gameState) : Len(gameState.memoryPiles[s].cards) > 0
    /\ \E i \in 1..Len(gameState.forgottenPile) : gameState.forgottenPile[i].rank = "K"

\* the state is a deal of the 54 cards
DealtState(state) ==
    /\ Len(state.narrativeDeck) = 4
    /\ \A k \in 1..Len(state.narrativeDeck) :
          /\ Len(state.narrativeDeck[k]) = 1
          /\ state.narrativeDeck[k][1].rank \notin {"K", "Q", "J", "Joker"}
    /\ Len(state.playDeck) = 2
    /\ \A r \in 1..Len(state.playDeck) :
          /\ Len(state.playDeck[r]) = 4
          /\ \A c \in 1..Len(state.playDeck[r]) : state.playDeck[r][c] # NULL
    /\ Len(state.mainDeck) = 42
    /\ state.forgottenPile = <<>>
    /\ \A s \in {"spades", "hearts", "clubs", "diamonds"} :
          state.memoryPiles[s] = [cards |-> <<>>, completedWithQueens |-> 0]
    /\ state.gameStatus = "playing"
    /\ Len(ContainerCards(state)) = 54
    /\ Cardinality({c.id : c \in SeqToSet(ContainerCards(state))}) = 54
    /\ {c.id : c \in SeqToSet(ContainerCards(state))}
         = {<<r, s>> : r \in SeqToSet(RANKS), s \in SeqToSet(SUITS)}
           \cup {<<"Joker", "1">>, <<"Joker", "2">>}

\* C30: setup deal.  Every state setupGame returns for the 54 cards of
\* createDeck (one per shuffle outcome explored) has exactly 4 narrative
\* sequences of one card each, none a King, Queen, Jack or Wild, two play
\* rows of 4 filled slots, a reserve of the remaining 42 cards, empty
\* forgotten and memory piles, zero Queen counters and status 'playing';
\* the 54 card ids are distinct and each is in exactly one container.  The
\* narrative deal run on the unshuffled deck (whose top cards are the two
\* Wilds and three royals) sets those five aside and deals four ranked cards.
C30_SetupDeal ==
    lastOp.op = "setupGame"
      => /\ DealtState(gameState)
         /\ LET dealt == DealNarrative(createDeck, <<>>, <<>>)
            IN  /\ Len(dealt[2]) = 4
                /\ \A k \in 1..Len(dealt[2]) :
                      dealt[2][k][1].rank \notin {"K", "Q", "J", "Joker"}
                /\ Len(dealt[3]) = 5
                /\ Len(dealt[1]) + Len(dealt[3]) = 50

\* a deal during which a royal or a Wild was drawn for the narrative row and set aside
C30_Witness ==
    /\ lastOp.op = "setupGame"
    /\ \E seed \in 0..MaxDealSeed :
          /\ DealNarrative(shuffleDeck(createDeck, seed), <<>>, <<>>)[3] # <<>>
          /\ gameState.narrativeDeck
               = DealNarrative(shuffleDeck(createDeck, seed), <<>>, <<>>)[2]

\* every outcome of the four Math.random() draws of generateGoals
GoalSeeds == 0..((3 ^ Len(SUITS)) - 1)

\* the goals are one per suit of SUITS, in order, each with a count from 1 to 3
WellPosedGoals(goals) ==
    /\ Len(goals) = Len(SUITS)
    /\ \A i \in 1..Len(goals) :
          /\ goals[i].suit = SUITS[i]
          /\ goals[i].count \in 1..3
    /\ {goals[i].suit : i \in 1..Len(goals)} = {"spades", "hearts", "clubs", "diamonds"}

IsPrefix(s, t) == Len(s) <= Len(t) /\ SubSeq(t, 1, Len(s)) = s

\* the containers of a state
Containers(state) ==
    <<state.playDeck, state.narrativeDeck, state.forgottenPile, state.memoryPiles, state.mainDeck>>

\* C32: move history.  The history is append-only: across every step the
\* old history is a prefix of the new one (no entry is removed, reordered or
\* rewritten), and every step that changes a container (play rows,
\* narrative sequences, forgotten pile, memory piles, reserve) appends at
\* least one entry to it.
C32_HistoryAppendOnly ==
    [][/\ IsPrefix(gameState.history, gameState'.history)
       /\ Containers(gameState') # Containers(gameState)
            => Len(gameState'.history) > Len(gameState.history)]_vars

\* C33: settled-state goal invariant.  In every reachable state with status
\* 'playing' every suit has completedSets at most its goal's count and at
\* least one suit has completedSets below its goal's count; in every
\* reachable state with status 'won' every suit has completedSets exactly
\* equal to its goal's count.
C33_SettledGoals ==
    /\ gameState.gameStatus = "playing"
         => /\ \A s \in GoalSuits(gameState) :
                  CompletedSets(gameState, s) <= GoalCount(gameState, s)
            /\ \E s \in GoalSuits(gameState) :
                  CompletedSets(gameState, s) < GoalCount(gameState, s)
    /\ gameState.gameStatus = "won"
         => \A s \in GoalSuits(gameState) :
               CompletedSets(gameState, s) = GoalCount(gameState, s)

\* a game won by a resolved drop, one suit's goal having been met by a Queen
C33_Witness ==
    /\ gameState.gameStatus = "won"
    /\ lastOp.op = "handleDrop"
    /\ lastOp.branch = "narrative"
    /\ \E s \in GoalSuits(gameState) : gameState.memoryPiles[s].completedWithQueens > 0

\* some play-row card is actionable under isPlayable
SomePlayable(state) ==
    \E r \in 0..(NumRows - 1), c \in 0..(NumCols - 1) : isPlayable(state, r, c)

\* C34: no stuck game.  In every reachable state with status 'playing' in
\* which no effect is left to run, some play-row card is actionable under
\* isPlayable: a 'playing' state without an actionable card is followed by an
\* effect (the refresh, or the exhaustion loss), so there is no 'playing'
\* state in which no card can be played or discarded and no effect fires.
C34_NoStuckGame ==
    (gameState.gameStatus = "playing" /\ ~EffectPending) => SomePlayable(gameState)

\* the cards dropped in turn on one sequence: every spade, two hearts, both Wilds
TrialCards ==
    {MkCard(RANKS[i], "spades") : i \in 1..Len(RANKS)}
      \cup {MkCard("5", "hearts"), MkCard("6", "hearts"), Joker1, Joker2}

\* handleDrop of the card, placed at slot 0 of the front row, on sequence 0 holding the cards
TrialDrop(cards, card) ==
    handleDropResult([gameState EXCEPT !.narrativeDeck[1] = cards, !.playDeck[1][1] = card],
                     [card |-> card, source |-> PlaySource(0, 0)], NarrativeTarget(0))

\* C35: validator and resolver agree.  Every card handleDrop admits as the
\* third card of a narrative sequence makes that sequence resolve in the same
\* step (the sequence is left empty), so in every reachable state each
\* narrative sequence holds at most 2 cards.  Stated of every step of the
\* board, and of handleDrop applied three times to an empty sequence of a
\* dealt state with every choice of three distinct cards of TrialCards.
C35_ValidatorResolverAgree ==
    /\ [](\A k \in 1..Len(gameState.narrativeDeck) : Len(gameState.narrativeDeck[k]) <= 2)
    /\ [][(/\ lastOp'.op = "handleDrop"
           /\ lastOp'.branch = "narrative"
           /\ lastOp' # lastOp
           /\ Len(gameState.narrativeDeck[lastOp'.idx + 1]) = 2)
            => gameState'.narrativeDeck[lastOp'.idx + 1] = <<>>]_vars
    /\ [](lastOp.op = "setupGame" =>
            \A x \in TrialCards, y \in TrialCards, z \in TrialCards :
               (/\ x # y /\ x # z /\ y # z
                /\ TrialDrop(<<>>, x).branch = "narrative"
                /\ TrialDrop(<<x>>, y).branch = "narrative"
                /\ TrialDrop(<<x, y>>, z).branch = "narrative")
                 => TrialDrop(<<x, y>>, z).state.narrativeDeck[1] = <<>>)

\* a ranked card has just been admitted as the third card of a sequence
\* holding a Wild, and the sequence resolved
C35_Witness ==
    /\ lastOp.op = "handleDrop"
    /\ lastOp.branch = "narrative"
    /\ lastOp.card.rank # "Joker"
    /\ gameState.narrativeDeck[lastOp.idx + 1] = <<>>
    /\ \E s \in GoalSuits(gameState) :
          /\ Len(gameState.memoryPiles[s].cards) >= 3
          /\ gameState.memoryPiles[s].cards[Len(gameState.memoryPiles[s].cards)] = lastOp.card
          /\ \E i \in 1..Len(gameState.memoryPiles[s].cards) :
                gameState.memoryPiles[s].cards[i].rank = "Joker"

\* the royal a commit step names: the Jack handleResurrectSelect pushes last,
\* else the card the handler was given
CommittedRoyal(op, after) ==
    IF op.op = "handleResurrectSelect"
    THEN after.forgottenPile[Len(after.forgottenPile)]
    ELSE op.card

\* the step is a commit of a royal by one of the three handlers
RoyalCommit(op) ==
    \/ op.op = "handleKingAction"
    \/ op.op = "handleJackAction" /\ op.branch = "discardJack"
    \/ op.op = "handleResurrectSelect"

C37_PlayFinite == <>[][gameState' = gameState]_vars

\* C38: play grid shape.  In every reachable state playDeck consists of
\* exactly 2 rows of exactly 4 slots each, every slot a card or empty; no
\* operation or effect, the whole-row promotion of the refresh included,
\* changes the number of rows or of slots.
C38_GridShape ==
    /\ Len(gameState.playDeck) = 2
    /\ \A r \in 1..Len(gameState.playDeck) :
          /\ Len(gameState.playDeck[r]) = 4
          /\ \A c \in 1..Len(gameState.playDeck[r]) :
                \/ gameState.playDeck[r][c] = NULL
                \/ gameState.playDeck[r][c].rank \in SeqToSet(RANKS) \cup {"Joker"}

\* the refresh has just promoted the back row and dealt a new one that the
\* reserve could not fill
C38_Witness ==
    /\ lastOp.op = "refreshEffect"
    /\ gameState.mainDeck = <<>>
    /\ \E c \in 0..(NumCols - 1) : SlotAt(gameState, 1, c) = NULL
    /\ \E c \in 0..(NumCols - 1) : SlotAt(gameState, 1, c) # NULL

\* C39: memory pile structure.  In every reachable state each suit's memory
\* pile holds a multiple of 3 cards, every ranked card in it has the pile's
\* suit (Wilds may be in any pile) and no King, Queen or Jack is in it; no
\* step removes or reorders the cards of a memory pile (the old pile is a
\* prefix of the new one), and no step decreases completedWithQueens.
C39_MemoryPiles ==
    /\ [](\A s \in GoalSuits(gameState) :
            LET cards == gameState.memoryPiles[s].cards
            IN  /\ Len(cards) % 3 = 0
                /\ \A i \in 1..Len(cards) :
                      /\ cards[i].rank # "Joker" => cards[i].suit = s
                      /\ ~IsRoyal(cards[i]))
    /\ [][\A s \in GoalSuits(gameState) :
            /\ IsPrefix(gameState.memoryPiles[s].cards, gameState'.memoryPiles[s].cards)
            /\ gameState'.memoryPiles[s].completedWithQueens
                 >= gameState.memoryPiles[s].completedWithQueens]_vars

\* a memory pile holds two sets, one of them made with a Wild, and a Queen
\* has completed a set
C39_Witness ==
    /\ \E s \in GoalSuits(gameState) :
          /\ Len(gameState.memoryPiles[s].cards) = 6
          /\ \E i \in 1..6 : gameState.memoryPiles[s].cards[i].rank = "Joker"
    /\ \E s \in GoalSuits(gameState) : gameState.memoryPiles[s].completedWithQueens > 0

====
